---- MODULE Spec2Model ----
(***************************************************************************)
(* Metrics normalisation and impact analysis engine of                     *)
(* src/dataset-tools/shared_metrics_utils.py: load_jsonl, extract_metrics, *)
(* process_latency_buckets, calculate_derived_metrics,                     *)
(* standardize_processor_output, process_dataset, analyze_impact,          *)
(* calculate_percent_increase and safe_divide; and of                      *)
(* src/dataset-tools/command_injection_processor.py:                       *)
(* analyze_command_injection_impact.                                       *)
(*                                                                         *)
(* Floats are modelled as exact rationals plus NaN, +inf and -inf (IEEE    *)
(* rounding is not modelled).  An exception that leaves a function is the  *)
(* value Raise(name) in place of the function's result.                    *)
(***************************************************************************)
EXTENDS Integers, Sequences, FiniteSets, TLC

VARIABLES
    pc,             \* position of the run being modelled
    file,           \* load_jsonl: the content of file_path (or Unreadable)
    data,           \* load_jsonl: the list returned
    log,            \* load_jsonl: messages printed so far
    jsonl_data,     \* extract_metrics: its input list
    metrics,        \* extract_metrics: the list returned (or a raised exception)
    df,             \* the working DataFrame
    baseline_value, \* calculate_percent_increase: first argument
    new_value,      \* calculate_percent_increase: second argument
    result,         \* calculate_percent_increase / safe_divide: value returned
    files,          \* process_dataset: the baseline, event and recovery files
    summary_df,     \* analyze_impact: the summary rows returned
    impact_df,      \* analyze_impact: the impact records returned
    error,          \* the exception that left the run ("" while none has)
    given,          \* the table the last stage was called with, as it was then
    kept,           \* that same table as the caller sees it after the call
    runs            \* what the runs completed before this one returned

loaderVars == <<file, data, log>>

extractVars == <<jsonl_data, metrics>>

helperVars == <<baseline_value, new_value, result>>

pipelineVars == <<files, summary_df, impact_df>>

callVars == <<given, kept, runs>>

vars == <<pc, loaderVars, extractVars, helperVars, pipelineVars, callVars,
          df, error>>

(***************************************************************************)
(* Floats.                                                                 *)
(***************************************************************************)
Abs(x) == IF x < 0 THEN -x ELSE x

RECURSIVE Gcd(_, _)
Gcd(a, b) == IF b = 0 THEN a ELSE Gcd(b, a % b)

NaN == [k |-> "nan", n |-> 0, d |-> 1]

PInf == [k |-> "inf", n |-> 1, d |-> 1]

NInf == [k |-> "inf", n |-> -1, d |-> 1]

\* The rational n/d in lowest terms with a positive denominator.
Fin(n, d) ==
    LET s == IF d < 0 THEN -1 ELSE 1
        g == Gcd(Abs(n), Abs(d))
    IN  [k |-> "fin", n |-> (s * n) \div g, d |-> (s * d) \div g]

Int2F(i) == [k |-> "fin", n |-> i, d |-> 1]

IsNaN(x) == x.k = "nan"

IsInf(x) == x.k = "inf"

IsFin(x) == x.k = "fin"

Sign(x) == IF x.n > 0 THEN 1 ELSE IF x.n < 0 THEN -1 ELSE 0

SignedInf(s) == IF s > 0 THEN PInf ELSE NInf

FNeg(x) == [x EXCEPT !.n = -x.n]

FAdd(x, y) ==
    IF IsNaN(x) \/ IsNaN(y) THEN NaN
    ELSE IF IsInf(x) /\ IsInf(y) THEN (IF x.n = y.n THEN x ELSE NaN)
    ELSE IF IsInf(x) THEN x
    ELSE IF IsInf(y) THEN y
    ELSE Fin(x.n * y.d + y.n * x.d, x.d * y.d)

FSub(x, y) == FAdd(x, FNeg(y))

FMul(x, y) ==
    IF IsNaN(x) \/ IsNaN(y) THEN NaN
    ELSE IF IsInf(x) \/ IsInf(y)
         THEN (IF Sign(x) * Sign(y) = 0 THEN NaN ELSE SignedInf(Sign(x) * Sign(y)))
    ELSE Fin(x.n * y.n, x.d * y.d)

\* Division of numpy floats: x/0 is +-inf, 0/0 is NaN, nothing is raised.
FDiv(x, y) ==
    IF IsNaN(x) \/ IsNaN(y) THEN NaN
    ELSE IF IsInf(x) THEN (IF IsInf(y) THEN NaN
                           ELSE SignedInf(Sign(x) * (IF Sign(y) < 0 THEN -1 ELSE 1)))
    ELSE IF IsInf(y) THEN Int2F(0)
    ELSE IF y.n = 0 THEN (IF x.n = 0 THEN NaN ELSE SignedInf(Sign(x)))
    ELSE Fin(x.n * y.d, x.d * y.n)

FEq(x, y) == ~IsNaN(x) /\ ~IsNaN(y) /\ x = y

FLt(x, y) ==
    /\ ~IsNaN(x) /\ ~IsNaN(y)
    /\ IF IsInf(x) THEN x.n < 0 /\ x # y
       ELSE IF IsInf(y) THEN y.n > 0
       ELSE x.n * y.d < y.n * x.d

FLe(x, y) == FLt(x, y) \/ FEq(x, y)

FAbs(x) == [x EXCEPT !.n = Abs(x.n)]

\* Python's max(a, b) on two comparable floats.
FMax(x, y) == IF FLt(x, y) THEN y ELSE x

\* The outcome of a call: the value returned, or the exception that left it.
Ok(v) == [exc |-> "", val |-> v]

Raise(name) == [exc |-> name, val |-> <<>>]

Raised(r) == r.exc # ""

\* The call F made on the value of r, unless r is an exception on its way up.
Then(r, F(_)) == IF Raised(r) THEN r ELSE F(r.val)

\* The elements of a sequence, as a set.
Range(s) == {s[i] : i \in DOMAIN s}

(***************************************************************************)
(* Python dicts, kept as the sequence of their <<key, value>> items in     *)
(* insertion order.                                                        *)
(***************************************************************************)
DictHas(d, key) == \E i \in DOMAIN d : d[i][1] = key

DictGet(d, key) == d[CHOOSE i \in DOMAIN d : d[i][1] = key][2]

DictSet(d, key, v) ==
    IF DictHas(d, key)
    THEN [i \in DOMAIN d |-> IF d[i][1] = key THEN <<key, v>> ELSE d[i]]
    ELSE Append(d, <<key, v>>)

DictKeys(d) == [i \in DOMAIN d |-> d[i][1]]

(***************************************************************************)
(* The DataFrame: its data columns in order, and its rows in order.  A row *)
(* carries its index label, the fixed fields and one cell per data column  *)
(* (NaN where the row has no value).  Column names are kept as tuples of   *)
(* their parts: "cpu_X" is <<"cpu", "X">>, "latency_ms_E_X_method" is      *)
(* <<"latency_ms", "E", "X", "method">>.                                   *)
(***************************************************************************)
EmptyDF == [columns |-> <<>>, rows |-> <<>>]

\* Cells that are not floats: a string, a bool, a dict.
Str(s) == [k |-> "str", s |-> s]

Bool(b) == [k |-> "bool", b |-> b]

Dict(items) == [k |-> "dict", items |-> items]

\* isinstance(v, dict)
IsDict(v) == v.k = "dict"

HasColumn(d, col) == col \in Range(d.columns)

\* df[col], one value per row.
Column(d, col) == [i \in DOMAIN d.rows |-> d.rows[i].cells[col]]

\* df[col] = values (a new column is appended to df.columns).
SetColumn(d, col, values) ==
    [columns |-> IF HasColumn(d, col) THEN d.columns ELSE Append(d.columns, col),
     rows |-> [i \in DOMAIN d.rows |->
                [d.rows[i] EXCEPT !.cells =
                    [c \in DOMAIN d.rows[i].cells \cup {col} |->
                        IF c = col THEN values[i] ELSE d.rows[i].cells[c]]]]]

\* df.at[idx, col] = v.  On an index with repeated labels pandas falls back to
\* df.loc[idx, col] = v, which writes every row carrying the label; a new column
\* is NaN in the other rows.
SetAt(d, idx, col, v) ==
    SetColumn(d, col,
        [i \in DOMAIN d.rows |->
            IF d.rows[i].index = idx THEN v
            ELSE IF HasColumn(d, col) THEN d.rows[i].cells[col] ELSE NaN])

\* df.drop(columns=[col])
DropColumn(d, col) ==
    [columns |-> SelectSeq(d.columns, LAMBDA c : c # col),
     rows |-> [i \in DOMAIN d.rows |->
                [d.rows[i] EXCEPT !.cells =
                    [c \in DOMAIN d.rows[i].cells \ {col} |-> d.rows[i].cells[c]]]]]

(***************************************************************************)
(* process_latency_buckets.                                                *)
(***************************************************************************)
\* float('inf') if k == 'inf' else float(k), on the bucket labels of the model.
LeToFloat(k) ==
    CASE k = "inf"  -> Ok(PInf)
      [] k = "+Inf" -> Ok(PInf)
      [] k = "0.05" -> Ok(Fin(1, 20))
      [] k = "0.1"  -> Ok(Fin(1, 10))
      [] k = "0.5"  -> Ok(Fin(1, 2))
      [] OTHER      -> Raise("ValueError")

\* {float(k): v for k, v in buckets.items()}
RECURSIVE BucketBounds(_, _)
BucketBounds(buckets, acc) ==
    IF buckets = <<>> THEN Ok(acc)
    ELSE Then(LeToFloat(Head(buckets)[1]),
              LAMBDA key : BucketBounds(Tail(buckets), DictSet(acc, key, Head(buckets)[2])))

\* sorted(bucket_bounds.items()): ascending bound (the bounds are distinct keys).
RECURSIVE SortedItems(_)
SortedItems(items) ==
    IF items = <<>> THEN <<>>
    ELSE LET least == CHOOSE i \in DOMAIN items :
                        \A j \in DOMAIN items : ~FLt(items[j][1], items[i][1])
             rest == [j \in 1..(Len(items) - 1) |->
                        IF j < least THEN items[j] ELSE items[j + 1]]
         IN  <<items[least]>> \o SortedItems(rest)

Estimate(latency_ms, is_estimated, method) ==
    [latency_ms |-> latency_ms, estimated |-> is_estimated, method |-> method]

quantile == Fin(19, 20)

\* The scan of adjacent pairs with the comparison made strict.
InterpolationPair_strict(non_inf_buckets, target_count) ==
    {i \in 1..(Len(non_inf_buckets) - 1) :
        /\ FLt(non_inf_buckets[i][2], target_count)
        /\ FLt(target_count, non_inf_buckets[i + 1][2])}

\* The indices i with current_count <= target_count <= next_count.
InterpolationPair(non_inf_buckets, target_count) ==
    {i \in 1..(Len(non_inf_buckets) - 1) :
        /\ FLe(non_inf_buckets[i][2], target_count)
        /\ FLe(target_count, non_inf_buckets[i + 1][2])}

\* Lines 385-387: linear interpolation inside the bucket pair, in ms.
Interpolate(current, next, target_count) ==
    LET fraction == FDiv(FSub(target_count, current[2]),
                         FMax(Int2F(1), FSub(next[2], current[2])))
    IN  FMul(FAdd(current[1], FMul(fraction, FSub(next[1], current[1]))), Int2F(1000))

\* A lone bucket is always reported as single_bucket.
SingleBucket_always(bound) == Estimate(FMul(bound, Int2F(1000)), TRUE, "single_bucket")

\* The bound of a lone finite bucket is left in seconds.
SingleBucket_seconds(bound) ==
    IF bound = PInf
    THEN Estimate(NaN, TRUE, "only_inf_bucket")
    ELSE Estimate(bound, TRUE, "single_bucket")

\* Lines 410-423: only one bucket available.
SingleBucket(bound) ==
    IF bound = PInf
    THEN Estimate(NaN, TRUE, "only_inf_bucket")
    ELSE Estimate(FMul(bound, Int2F(1000)), TRUE, "single_bucket")

\* Lines 381-394: the first adjacent pair that holds the target, or the
\* highest finite bound when none does.
EstimateFromPairs(non_inf_buckets, target_count, found) ==
    IF found # {}
    THEN Estimate(Interpolate(non_inf_buckets[CHOOSE i \in found : \A j \in found : i <= j],
                              non_inf_buckets[(CHOOSE i \in found : \A j \in found : i <= j) + 1],
                              target_count),
                  FALSE, "interpolation")
    ELSE Estimate(FMul(non_inf_buckets[Len(non_inf_buckets)][1], Int2F(1000)),
                  TRUE, "highest_bucket")

\* Lines 373-394.
EstimateAtTarget(non_inf_buckets, target_count) ==
    EstimateFromPairs(non_inf_buckets, target_count,
                      InterpolationPair(non_inf_buckets, target_count))

\* Lines 366-404.
EstimateFromTotal(non_inf_buckets, inf_count) ==
    IF FLt(Int2F(0), inf_count)
    THEN EstimateAtTarget(non_inf_buckets, FMul(inf_count, quantile))
    ELSE Estimate(NaN, TRUE, "zero_counts")

\* Lines 356-409: bucket_bounds.get(float('inf'), non_inf_buckets[-1][1]).
EstimateFromBuckets(non_inf_buckets, infs) ==
    IF Len(non_inf_buckets) >= 2
    THEN EstimateFromTotal(non_inf_buckets,
                           IF infs # <<>> THEN infs[1][2]
                           ELSE non_inf_buckets[Len(non_inf_buckets)][2])
    ELSE Estimate(NaN, TRUE, "insufficient_buckets")

\* Lines 350-423 for one (sensor, endpoint): the three cells written.
EstimateLatency(sorted_bounds) ==
    IF sorted_bounds = <<>> THEN Estimate(NaN, TRUE, "no_data")
    ELSE IF Len(sorted_bounds) >= 2
    THEN EstimateFromBuckets(SelectSeq(sorted_bounds, LAMBDA b : b[1] # PInf),
                             SelectSeq(sorted_bounds, LAMBDA b : b[1] = PInf))
    ELSE SingleBucket(sorted_bounds[1][1])

LatencyCol(endpoint, sensor_id) == <<"latency_ms", endpoint, sensor_id>>

FlagCol(endpoint, sensor_id) == <<"latency_ms", endpoint, sensor_id, "estimated">>

MethodCol(endpoint, sensor_id) == <<"latency_ms", endpoint, sensor_id, "method">>

\* The three cells of one estimate written into the row labelled idx.
WriteEstimate(d, idx, sensor_id, endpoint, e) ==
    SetAt(SetAt(SetAt(d, idx, LatencyCol(endpoint, sensor_id), e.latency_ms),
                idx, FlagCol(endpoint, sensor_id), Bool(e.estimated)),
          idx, MethodCol(endpoint, sensor_id), Str(e.method))

\* Lines 338-423: one endpoint of one sensor of the row labelled idx.
ProcessEndpoint(d, idx, sensor_id, endpoint, buckets) ==
    Then(BucketBounds(buckets, <<>>),
         LAMBDA bucket_bounds :
            Ok(WriteEstimate(d, idx, sensor_id, endpoint,
                             EstimateLatency(SortedItems(bucket_bounds)))))

RECURSIVE ProcessEndpoints(_, _, _, _)
ProcessEndpoints(d, idx, sensor_id, endpoints) ==
    IF endpoints = <<>> THEN Ok(d)
    ELSE Then(ProcessEndpoint(d, idx, sensor_id, Head(endpoints)[1], Head(endpoints)[2]),
              LAMBDA d1 : ProcessEndpoints(d1, idx, sensor_id, Tail(endpoints)))

RECURSIVE ProcessSensors(_, _, _)
ProcessSensors(d, idx, sensors) ==
    IF sensors = <<>> THEN Ok(d)
    ELSE Then(ProcessEndpoints(d, idx, Head(sensors)[1], Head(sensors)[2]),
              LAMBDA d1 : ProcessSensors(d1, idx, Tail(sensors)))

\* Lines 332-423: for idx, row in df.iterrows(); row i is read from the frame as
\* it was when the loop started only for its bucket cell, which no step rewrites.
RECURSIVE ProcessRows(_, _)
ProcessRows(d, i) ==
    IF i > Len(d.rows) THEN Ok(d)
    ELSE IF ~IsDict(d.rows[i].cells[<<"bucket">>]) THEN ProcessRows(d, i + 1)
    ELSE Then(ProcessSensors(d, d.rows[i].index, d.rows[i].cells[<<"bucket">>].items),
              LAMBDA d1 : ProcessRows(d1, i + 1))

IsMethodCol(col) == Len(col) = 4 /\ col[4] = "method"

\* astype(str) of a method cell: a missing value becomes the string "nan".
AsStr(v) == IF v.k = "str" THEN v ELSE Str(v.k)

\* Lines 426-428.
RECURSIVE MethodsAsStr(_, _)
MethodsAsStr(d, cols) ==
    IF cols = <<>> THEN d
    ELSE MethodsAsStr(
            IF IsMethodCol(Head(cols))
            THEN SetColumn(d, Head(cols),
                    [i \in DOMAIN d.rows |-> AsStr(d.rows[i].cells[Head(cols)])])
            ELSE d,
            Tail(cols))

process_latency_buckets(d) ==
    Then(ProcessRows(d, 1), LAMBDA d1 : Ok(MethodsAsStr(d1, d1.columns)))

(***************************************************************************)
(* load_jsonl.  A line of the file is kept as the outcome json.loads has   *)
(* on it: the value parsed, a json.JSONDecodeError (malformed text), or    *)
(* another exception (RecursionError on deeply nested brackets, ValueError *)
(* on an integer literal of more than 4300 digits).                        *)
(***************************************************************************)
Parsed(value) == [parse |-> "ok", value |-> value]

Malformed == [parse |-> "JSONDecodeError", value |-> <<>>]

Unparsable == [parse |-> "ValueError", value |-> <<>>]

\* A path that open() fails on.
Unreadable == [readable |-> FALSE, lines |-> <<>>]

TextFile(lines) == [readable |-> TRUE, lines |-> lines]

\* Lines 14-20: the loop over the lines; an exception other than
\* JSONDecodeError leaves the loop and is caught by the outer handler.
RECURSIVE ReadLines(_, _, _)
ReadLines(lines, acc, messages) ==
    IF lines = <<>> THEN [data |-> acc, log |-> messages]
    ELSE IF Head(lines).parse = "ok"
    THEN ReadLines(Tail(lines), Append(acc, Head(lines).value), messages)
    ELSE IF Head(lines).parse = "JSONDecodeError"
    THEN ReadLines(Tail(lines), acc, Append(messages, "Error parsing line"))
    ELSE [data |-> acc, log |-> Append(messages, "Error loading file")]

load_jsonl(file_path) ==
    IF ~file_path.readable
    THEN [data |-> <<>>, log |-> <<"Error loading file">>]
    ELSE ReadLines(file_path.lines, <<>>, <<>>)

(***************************************************************************)
(* extract_metrics.  A parsed line is a JSON object (a snapshot) or a JSON *)
(* value of another type.  A snapshot's metrics is the dict of its metric  *)
(* kinds, each with the list of its entries {"metric": labels, "value":    *)
(* raw}.  human_time is informational and left out.                        *)
(***************************************************************************)
Snapshot(data_type, timestamp, snapshot_metrics) ==
    [type |-> "object", data_type |-> data_type, timestamp |-> timestamp,
     metrics |-> snapshot_metrics]

\* A line that is valid JSON but no object, such as [1, 2].
JsonArray == [type |-> "array"]

Entry(labels, raw_value) == [metric |-> labels, value |-> raw_value]

\* The values an entry's "value" may hold.
Num(v) == [t |-> "num", v |-> v]

Text(str) == [t |-> "str", s |-> str]

Null == [t |-> "null"]

List(items) == [t |-> "list", items |-> items]

Object == [t |-> "object"]

\* float(s) on the strings of the model.
StrToFloat(str) ==
    CASE str = "40"   -> Ok(Int2F(40))
      [] str = "12.5" -> Ok(Fin(25, 2))
      [] OTHER        -> Raise("ValueError")

\* float(x)
FloatOf(raw) ==
    CASE raw.t = "num" -> Ok(raw.v)
      [] raw.t = "str" -> StrToFloat(raw.s)
      [] OTHER         -> Raise("TypeError")

\* Lines 94-109: the value of an entry as a float.
CoerceValue(raw_value) ==
    IF raw_value.t = "list" /\ Len(raw_value.items) > 1
    THEN LET r == FloatOf(raw_value.items[2])
         IN  IF r.exc \in {"IndexError", "ValueError"} THEN Ok(Int2F(0)) ELSE r
    ELSE IF raw_value.t = "list" /\ Len(raw_value.items) = 1
    THEN LET r == FloatOf(raw_value.items[1])
         IN  IF r.exc \in {"IndexError", "ValueError"} THEN Ok(Int2F(0)) ELSE r
    ELSE LET r == FloatOf(raw_value)
         IN  IF r.exc \in {"TypeError", "ValueError"} THEN Ok(Int2F(0)) ELSE r

\* labels.get(key, default)
LabelGet(labels, key, default) ==
    IF DictHas(labels, key) THEN DictGet(labels, key) ELSE default

\* "network_sent_bytes" in metric_type, and the like, on the kinds of the model.
IsNetworkSent(metric_type) ==
    metric_type \in {"sensor_network_sent_bytes", "gateway_network_sent_bytes"}

IsNetworkReceived(metric_type) ==
    metric_type \in {"sensor_network_received_bytes", "gateway_network_received_bytes"}

IsCpuTotal(metric_type) == metric_type \in {"process_cpu_seconds_total"}

IsMemoryTotal(metric_type) == metric_type \in {"process_memory_bytes_total"}

\* Lines 132-139: metric_data["bucket"][sensor_id][endpoint][le_value] = value
BucketPut(bucket, sensor_id, endpoint, le_value, value) ==
    LET endpoints == IF DictHas(bucket, sensor_id) THEN DictGet(bucket, sensor_id) ELSE <<>>
        buckets == IF DictHas(endpoints, endpoint) THEN DictGet(endpoints, endpoint) ELSE <<>>
    IN  DictSet(bucket, sensor_id,
                DictSet(endpoints, endpoint, DictSet(buckets, le_value, value)))

\* Lines 112-155: the entry stored under the name its metric kind gives it.
StoreMetric(metric_data, metric_type, labels, value) ==
    LET sensor_id == LabelGet(labels, "sensor_id", "unknown")
        endpoint == LabelGet(labels, "endpoint", "unknown")
    IN  CASE metric_type = "sensor_temperature" ->
                DictSet(metric_data, <<"temperature", sensor_id>>, value)
          [] metric_type = "gateway_temperature" ->
                DictSet(metric_data, <<"gateway_temp", sensor_id>>, value)
          [] metric_type = "dataserver_temperature" ->
                DictSet(metric_data, <<"true_temp", sensor_id>>, value)
          [] metric_type = "sensor_cpu_usage_percent" ->
                DictSet(metric_data, <<"cpu", sensor_id>>, value)
          [] metric_type = "sensor_memory_usage_mb" ->
                DictSet(metric_data, <<"memory", sensor_id>>, value)
          [] metric_type = "sensor_fault_mode" ->
                DictSet(metric_data, <<"fault_code", sensor_id>>, value)
          [] metric_type = "sensor_request_latency_seconds_bucket" ->
                LET with_raw == DictSet(metric_data, <<"latency", endpoint, sensor_id>>, value)
                    bucket == IF DictHas(with_raw, <<"bucket">>)
                              THEN DictGet(with_raw, <<"bucket">>).items ELSE <<>>
                IN  DictSet(with_raw, <<"bucket">>,
                            Dict(BucketPut(bucket, sensor_id, endpoint,
                                           LabelGet(labels, "le", "inf"), value)))
          [] metric_type = "sensor_failed_requests" ->
                DictSet(metric_data, <<"failed", endpoint, sensor_id>>, value)
          [] IsNetworkSent(metric_type) ->
                DictSet(metric_data, <<"network_sent", sensor_id>>, value)
          [] IsNetworkReceived(metric_type) ->
                DictSet(metric_data, <<"network_received", sensor_id>>, value)
          [] IsCpuTotal(metric_type) ->
                DictSet(metric_data, <<"cpu_total", sensor_id>>, value)
          [] IsMemoryTotal(metric_type) ->
                DictSet(metric_data, <<"memory_total", sensor_id>>, value)
          [] OTHER -> metric_data

\* Lines 85-155: the entries of one metric kind.
RECURSIVE StoreEntries(_, _, _)
StoreEntries(metric_data, metric_type, metric_entries) ==
    IF metric_entries = <<>> THEN Ok(metric_data)
    ELSE LET value == CoerceValue(Head(metric_entries).value)
         IN  IF Raised(value) THEN value
             ELSE StoreEntries(StoreMetric(metric_data, metric_type,
                                           Head(metric_entries).metric, value.val),
                               metric_type, Tail(metric_entries))

\* Lines 81-155: every metric kind of the snapshot.
RECURSIVE StoreKinds(_, _)
StoreKinds(metric_data, kinds) ==
    IF kinds = <<>> THEN Ok(metric_data)
    ELSE LET r == StoreEntries(metric_data, Head(kinds)[1], Head(kinds)[2])
         IN  IF Raised(r) THEN r ELSE StoreKinds(r.val, Tail(kinds))

\* A record of the list returned: the fixed fields and the other keys of
\* metric_data, in insertion order.
Record(timestamp, phase, vulnerability_type, cells) ==
    [timestamp |-> timestamp, phase |-> phase,
     vulnerability_type |-> vulnerability_type, cells |-> cells]

\* The main loop with the test of line 158 left out: every metrics snapshot
\* gives a record.
RECURSIVE ExtractLoop_keeps_empty(_, _, _, _)
ExtractLoop_keeps_empty(snapshots, phase, vulnerability_type, acc) ==
    IF snapshots = <<>> THEN Ok(acc)
    ELSE LET snapshot == Head(snapshots)
         IN  IF snapshot.type # "object" THEN Raise("AttributeError")
             ELSE IF snapshot.data_type # "metrics"
             THEN ExtractLoop_keeps_empty(Tail(snapshots), phase, vulnerability_type, acc)
             ELSE LET r == StoreKinds(<<>>, snapshot.metrics)
                  IN  IF Raised(r) THEN r
                      ELSE ExtractLoop_keeps_empty(Tail(snapshots), phase,
                              vulnerability_type,
                              Append(acc, Record(snapshot.timestamp, phase,
                                                 vulnerability_type, r.val)))

\* Lines 59-159: the main loop.
RECURSIVE ExtractLoop(_, _, _, _)
ExtractLoop(snapshots, phase, vulnerability_type, acc) ==
    IF snapshots = <<>> THEN Ok(acc)
    ELSE LET snapshot == Head(snapshots)
         IN  IF snapshot.type # "object" THEN Raise("AttributeError")
             ELSE IF snapshot.data_type # "metrics"
             THEN ExtractLoop(Tail(snapshots), phase, vulnerability_type, acc)
             ELSE LET r == StoreKinds(<<>>, snapshot.metrics)
                  IN  IF Raised(r) THEN r
                      ELSE ExtractLoop(Tail(snapshots), phase, vulnerability_type,
                              IF Len(r.val) > 0
                              THEN Append(acc, Record(snapshot.timestamp, phase,
                                                      vulnerability_type, r.val))
                              ELSE acc)

\* Lines 40-43 and 50: entry.get("data_type") on the entries up to the first
\* event_start, respectively the first metrics snapshot.
RECURSIVE ScanRaises(_, _)
ScanRaises(snapshots, data_type) ==
    IF snapshots = <<>> THEN FALSE
    ELSE IF Head(snapshots).type # "object" THEN TRUE
    ELSE IF Head(snapshots).data_type = data_type THEN FALSE
    ELSE ScanRaises(Tail(snapshots), data_type)

extract_metrics(snapshots, phase, vulnerability_type) ==
    IF ScanRaises(snapshots, "event_start") \/ ScanRaises(snapshots, "metrics")
    THEN Raise("AttributeError")
    ELSE ExtractLoop(snapshots, phase, vulnerability_type, <<>>)

(***************************************************************************)
(* pd.DataFrame(records) and pd.concat(frames).                            *)
(***************************************************************************)
\* The items of seq that are not in seen, each once, in order.
RECURSIVE NewItems(_, _)
NewItems(seq, seen) ==
    IF seq = <<>> THEN <<>>
    ELSE IF Head(seq) \in seen THEN NewItems(Tail(seq), seen)
    ELSE <<Head(seq)>> \o NewItems(Tail(seq), seen \cup {Head(seq)})

\* unique(): the distinct items of seq in order of first appearance.
Unique(seq) == NewItems(seq, {})

RECURSIVE Flatten(_)
Flatten(seqs) == IF seqs = <<>> THEN <<>> ELSE Head(seqs) \o Flatten(Tail(seqs))

\* pd.DataFrame(records): the columns are the keys in order of first appearance,
\* the index is 0, 1, ..., a key a record lacks is NaN.
DataFrame(records) ==
    LET columns == Unique(Flatten([i \in DOMAIN records |-> DictKeys(records[i].cells)]))
    IN  [columns |-> columns,
         rows |-> [i \in DOMAIN records |->
                    [index |-> i - 1,
                     timestamp |-> records[i].timestamp,
                     phase |-> records[i].phase,
                     vulnerability_type |-> records[i].vulnerability_type,
                     cells |-> [c \in Range(columns) |->
                                 IF DictHas(records[i].cells, c)
                                 THEN DictGet(records[i].cells, c) ELSE NaN]]]]

\* pd.concat(frames): the union of the columns, the rows one frame after the
\* other, every row keeping the index label it had in its frame.
Concat(frames) ==
    LET columns == Unique(Flatten([i \in DOMAIN frames |-> frames[i].columns]))
        widened(d) == [i \in DOMAIN d.rows |->
                        [d.rows[i] EXCEPT !.cells =
                            [c \in Range(columns) |->
                                IF c \in DOMAIN d.rows[i].cells
                                THEN d.rows[i].cells[c] ELSE NaN]]]
    IN  [columns |-> columns,
         rows |-> Flatten([i \in DOMAIN frames |-> widened(frames[i])])]

\* df.empty
IsEmpty(d) == d.rows = <<>>

(***************************************************************************)
(* calculate_derived_metrics.  The iteration order of the set of sensor    *)
(* ids (line 296) is an input of the function: Python fixes it per process *)
(* from the hash seed.                                                     *)
(***************************************************************************)
\* Series.diff()
Diff(values) ==
    [i \in DOMAIN values |-> IF i = 1 THEN NaN ELSE FSub(values[i], values[i - 1])]

Timestamps(d) == [i \in DOMAIN d.rows |-> d.rows[i].timestamp]

\* The columns of the frame whose name has the given first part.
ColumnsOf(d, part) == SelectSeq(d.columns, LAMBDA c : c[1] = part)

\* Lines 248 and 256: df[col].diff() / df['timestamp'].diff()
RateOf(d, col) ==
    LET dv == Diff(Column(d, col))
        dt == Diff(Timestamps(d))
    IN  [i \in DOMAIN d.rows |-> FDiv(dv[i], dt[i])]

\* Lines 243-256 for the columns cols, the rate stored under rate_part.
RECURSIVE NetworkRates(_, _, _)
NetworkRates(d, cols, rate_part) ==
    IF cols = <<>> THEN d
    ELSE NetworkRates(SetColumn(d, <<rate_part, Head(cols)[2]>>, RateOf(d, Head(cols))),
                      Tail(cols), rate_part)

\* Lines 266-280 for one raw latency column.
LatencyMs(d, col) ==
    LET ms_col == <<"latency_ms", col[2], col[3]>>
        d1 == IF HasColumn(d, ms_col) THEN d
              ELSE SetColumn(d, ms_col,
                     [i \in DOMAIN d.rows |-> FMul(d.rows[i].cells[col], Int2F(1000))])
    IN  SetColumn(d1, <<"response_time_ms">>,
            [i \in DOMAIN d1.rows |->
                IF IsNaN(d1.rows[i].cells[col]) THEN d1.rows[i].cells[<<"response_time_ms">>]
                ELSE FAdd(d1.rows[i].cells[<<"response_time_ms">>],
                          FMul(d1.rows[i].cells[col], Int2F(1000)))])

RECURSIVE LatencyMsAll(_, _)
LatencyMsAll(d, cols) ==
    IF cols = <<>> THEN d ELSE LatencyMsAll(LatencyMs(d, Head(cols)), Tail(cols))

\* Lines 259-280.
LatencyStep(d) ==
    LET latency_cols == ColumnsOf(d, "latency")
    IN  IF latency_cols = <<>> THEN d
        ELSE LatencyMsAll(
                IF HasColumn(d, <<"response_time_ms">>) THEN d
                ELSE SetColumn(d, <<"response_time_ms">>,
                               [i \in DOMAIN d.rows |-> Int2F(0)]),
                latency_cols)

\* The bucket column left in the table.
DroppedBucket_kept(r) == r

\* Lines 186-190.
DroppedBucket(r) == IF Raised(r) THEN r ELSE Ok(DropColumn(r.val, <<"bucket">>))

BucketStep(d) ==
    IF HasColumn(d, <<"bucket">>) THEN DroppedBucket(process_latency_buckets(d)) ELSE Ok(d)

\* Lines 239-256: the counter columns are listed before either loop runs.
NetworkStep(d) ==
    NetworkRates(NetworkRates(d, ColumnsOf(d, "network_sent"), "network_sent_rate"),
                 ColumnsOf(d, "network_received"), "network_received_rate")

\* Line 193: the columns temperature_<sensor id>.  The rolling columns the
\* function adds later (temperature_<id>_roll_mean, ...) have three parts and
\* are not in a frame that extract_metrics produced.
SensorTempCols(d) ==
    SelectSeq(d.columns, LAMBDA c : c[1] = "temperature" /\ Len(c) = 2)

\* np.abs(df[a] - df[b])
Deviation(d, a, b) ==
    [i \in DOMAIN d.rows |-> FAbs(FSub(d.rows[i].cells[a], d.rows[i].cells[b]))]

WithDeviation(d, present, part, sensor_id, a, b) ==
    IF present THEN SetColumn(d, <<part, sensor_id>>, Deviation(d, a, b)) ELSE d

\* Lines 199-216 for one sensor.
SensorDeviations(d, sensor_id) ==
    WithDeviation(
        WithDeviation(
            WithDeviation(d, HasColumn(d, <<"gateway_temp", sensor_id>>),
                          "sensor_gateway_dev", sensor_id,
                          <<"temperature", sensor_id>>, <<"gateway_temp", sensor_id>>),
            HasColumn(d, <<"true_temp", sensor_id>>),
            "sensor_true_dev", sensor_id,
            <<"temperature", sensor_id>>, <<"true_temp", sensor_id>>),
        HasColumn(d, <<"true_temp", sensor_id>>) /\ HasColumn(d, <<"gateway_temp", sensor_id>>),
        "gateway_true_dev", sensor_id,
        <<"gateway_temp", sensor_id>>, <<"true_temp", sensor_id>>)

\* Lines 198-216.
RECURSIVE DeviationStep(_, _)
DeviationStep(d, cols) ==
    IF cols = <<>> THEN d
    ELSE DeviationStep(SensorDeviations(d, Head(cols)[2]), Tail(cols))

\* df['phase'].unique()
Phases(d) == Unique([i \in DOMAIN d.rows |-> d.rows[i].phase])

\* Line 225: the positions of the rows of a phase, in frame order.
PhasePositions(d, phase) ==
    SelectSeq([i \in DOMAIN d.rows |-> i], LAMBDA i : d.rows[i].phase = phase)

\* The order sort_values uses: NaN last.
Earlier(a, b) == ~IsNaN(a) /\ (IsNaN(b) \/ FLt(a, b))

RECURSIVE InsertByTimestamp(_, _, _)
InsertByTimestamp(d, sorted, p) ==
    IF sorted = <<>> THEN <<p>>
    ELSE IF Earlier(d.rows[p].timestamp, d.rows[Head(sorted)].timestamp)
    THEN <<p>> \o sorted
    ELSE <<Head(sorted)>> \o InsertByTimestamp(d, Tail(sorted), p)

\* The rows left in the order they have in the frame.
SortByTimestamp_unsorted(d, positions) == positions

\* Line 229: phase_df.sort_values('timestamp'); rows of equal timestamp keep
\* their order (numpy sorts a short array by insertion).
RECURSIVE SortByTimestamp(_, _)
SortByTimestamp(d, positions) ==
    IF positions = <<>> THEN <<>>
    ELSE InsertByTimestamp(d,
            SortByTimestamp(d, SubSeq(positions, 1, Len(positions) - 1)),
            positions[Len(positions)])

\* Line 232: phase_df['timestamp'].diff() at place k of the sorted rows.
IntervalAt(d, sorted, k) ==
    IF k = 1 THEN NaN
    ELSE FSub(d.rows[sorted[k]].timestamp, d.rows[sorted[k - 1]].timestamp)

\* Line 236: df.loc[idx, col] = series.  The rows are addressed by index label:
\* every row of the frame that carries a label of idx receives the value the
\* series has under that label; the column is created with NaN when missing.
WriteIntervals(d, col, sorted) ==
    SetColumn(d, col,
        [i \in DOMAIN d.rows |->
            IF \E k \in DOMAIN sorted : d.rows[sorted[k]].index = d.rows[i].index
            THEN IntervalAt(d, sorted,
                    CHOOSE k \in DOMAIN sorted :
                        d.rows[sorted[k]].index = d.rows[i].index)
            ELSE IF HasColumn(d, col) THEN d.rows[i].cells[col] ELSE NaN])

UniqueLabels(d, positions) ==
    \A j, k \in DOMAIN positions :
        d.rows[positions[j]].index = d.rows[positions[k]].index => j = k

\* The intervals of a sensor taken between the rows of the phase in which
\* that sensor has a reading.
PhaseIntervalsAt_own_readings(d, sensor_id, positions) ==
    IF Len(positions) <= 1 THEN Ok(d)
    ELSE IF ~UniqueLabels(d, positions) THEN Raise("ValueError")
    ELSE Ok(WriteIntervals(d, <<"reporting_interval", sensor_id>>,
                SortByTimestamp(d,
                    SelectSeq(positions,
                        LAMBDA p : ~IsNaN(d.rows[p].cells[<<"temperature", sensor_id>>])))))

\* Lines 225-236 for the rows of one phase: a series whose labels repeat cannot
\* be aligned with the frame (pandas raises ValueError on such a reindex).
PhaseIntervalsAt(d, sensor_id, positions) ==
    IF Len(positions) <= 1 THEN Ok(d)
    ELSE IF ~UniqueLabels(d, positions) THEN Raise("ValueError")
    ELSE Ok(WriteIntervals(d, <<"reporting_interval", sensor_id>>,
                           SortByTimestamp(d, positions)))

RECURSIVE IntervalsOfPhases(_, _, _)
IntervalsOfPhases(r, sensor_id, phases) ==
    IF Raised(r) \/ phases = <<>> THEN r
    ELSE IntervalsOfPhases(
            PhaseIntervalsAt(r.val, sensor_id, PhasePositions(r.val, Head(phases))),
            sensor_id, Tail(phases))

\* Lines 219-236.
RECURSIVE IntervalStep(_, _)
IntervalStep(r, cols) ==
    IF Raised(r) \/ cols = <<>> THEN r
    ELSE IntervalStep(IntervalsOfPhases(r, Head(cols)[2], Phases(r.val)), Tail(cols))

IsSquare(n) == \E r \in 0..n : r * r = n

Root(n) == CHOOSE r \in 0..n : r * r = n

\* The square root of a rational that is not negative: a rational when both
\* parts are squares, and the closed form [k |-> "sqrt", of |-> v] otherwise
\* (a cell value; the arithmetic above is not defined on it).
SqrtF(v) ==
    IF ~IsFin(v) THEN v
    ELSE IF IsSquare(v.n) /\ IsSquare(v.d) THEN Fin(Root(v.n), Root(v.d))
    ELSE [k |-> "sqrt", of |-> v]

RECURSIVE Total(_)
Total(values) == IF values = <<>> THEN Int2F(0) ELSE FAdd(Head(values), Total(Tail(values)))

\* The observations of the window of the given size that ends at place i;
\* rolling() counts neither NaN nor an infinite value as an observation.
Window(values, i, size) ==
    SelectSeq(SubSeq(values, IF i > size THEN i - size + 1 ELSE 1, i), IsFin)

MeanOf(w) == FDiv(Total(w), Int2F(Len(w)))

\* rolling(5, min_periods).mean()
RollMean(values, i, min_periods) ==
    IF Len(Window(values, i, 5)) < min_periods THEN NaN
    ELSE MeanOf(Window(values, i, 5))

SquaredDeviations(w, mean) ==
    [j \in DOMAIN w |-> FMul(FSub(w[j], mean), FSub(w[j], mean))]

\* The sample variance (ddof = 1), undefined on fewer than two observations.
VarOf(w) ==
    IF Len(w) < 2 THEN NaN
    ELSE FDiv(Total(SquaredDeviations(w, MeanOf(w))), Int2F(Len(w) - 1))

\* The square of rolling(5, min_periods).std()
RollVar(values, i, min_periods) ==
    IF Len(Window(values, i, 5)) < min_periods THEN NaN
    ELSE VarOf(Window(values, i, 5))

\* Line 291 with a zero deviation replaced by 1 instead of NaN.
ZScore_unit_std(x, mean, var) ==
    IF IsNaN(var) \/ IsNaN(FSub(x, mean)) THEN NaN
    ELSE IF IsInf(FSub(x, mean)) THEN PInf
    ELSE IF var = Int2F(0) THEN FAbs(FSub(x, mean))
    ELSE SqrtF(FDiv(FMul(FSub(x, mean), FSub(x, mean)), var))

\* Line 291: np.abs((x - roll_mean) / roll_std.replace(0, np.nan)), from the
\* square of roll_std.
ZScore(x, mean, var) ==
    IF IsNaN(var) \/ var = Int2F(0) \/ IsNaN(FSub(x, mean)) THEN NaN
    ELSE IF IsInf(FSub(x, mean)) THEN PInf
    ELSE SqrtF(FDiv(FMul(FSub(x, mean), FSub(x, mean)), var))

\* Lines 286-291 for one sensor column.
RollingColumns(d, col, values) ==
    SetColumn(
        SetColumn(
            SetColumn(d, <<col[1], col[2], "roll_mean">>,
                      [i \in DOMAIN values |-> RollMean(values, i, 1)]),
            <<col[1], col[2], "roll_std">>,
            [i \in DOMAIN values |-> SqrtF(RollVar(values, i, 1))]),
        <<col[1], col[2], "zscore">>,
        [i \in DOMAIN values |->
            ZScore(values[i], RollMean(values, i, 1), RollVar(values, i, 1))])

\* Line 284: the least number of rows the rolling statistics are computed on.
MinRollingRows == 5

\* Lines 283-293.
RECURSIVE RollingStep(_, _)
RollingStep(d, cols) ==
    IF cols = <<>> \/ Len(d.rows) < MinRollingRows THEN d
    ELSE RollingStep(RollingColumns(d, Head(cols), Column(d, Head(cols))), Tail(cols))

\* Lines 304-305: the rows of the phase receive the rolling deviation of the
\* phase's intervals, the other rows keep what they have (NaN in a new column).
WriteStability(d, col, positions, intervals) ==
    SetColumn(d, col,
        [i \in DOMAIN d.rows |->
            IF \E k \in DOMAIN positions : positions[k] = i
            THEN SqrtF(RollVar(intervals,
                        CHOOSE k \in DOMAIN positions : positions[k] = i, 2))
            ELSE IF HasColumn(d, col) THEN d.rows[i].cells[col] ELSE NaN])

\* Line 303: a phase needs more rows than this for its stability metric.
MinStabilityRows == 5

\* Lines 301-305 for one phase.
PhaseStabilityAt(d, sensor_id, positions) ==
    IF Len(positions) > MinStabilityRows
    THEN WriteStability(d, <<"interval_stability", sensor_id>>, positions,
            [k \in DOMAIN positions |->
                d.rows[positions[k]].cells[<<"reporting_interval", sensor_id>>]])
    ELSE d

RECURSIVE StabilityOfPhases(_, _, _)
StabilityOfPhases(d, sensor_id, phases) ==
    IF phases = <<>> THEN d
    ELSE StabilityOfPhases(
            PhaseStabilityAt(d, sensor_id, PhasePositions(d, Head(phases))),
            sensor_id, Tail(phases))

\* Lines 296-305 for the sensor ids in the order the set yields them.
RECURSIVE StabilityStep(_, _)
StabilityStep(d, sensor_ids) ==
    IF sensor_ids = <<>> THEN d
    ELSE StabilityStep(
            IF HasColumn(d, <<"reporting_interval", Head(sensor_ids)>>)
            THEN StabilityOfPhases(d, Head(sensor_ids), Phases(d))
            ELSE d,
            Tail(sensor_ids))

\* The loop of line 296 over the first id the set yields only.
SensorIdsIn_first(cols, hash_order) ==
    LET ids == Unique([i \in DOMAIN cols |-> cols[i][2]])
    IN  SubSeq(SelectSeq(hash_order, LAMBDA id : id \in Range(ids)), 1, 1)

\* Line 296: set(...) of the sensor ids of the temperature columns, iterated in
\* the order hash_order ranks them (ids it does not rank come last).
SensorIdsIn(cols, hash_order) ==
    LET ids == Unique([i \in DOMAIN cols |-> cols[i][2]])
    IN  SelectSeq(hash_order, LAMBDA id : id \in Range(ids))
        \o SelectSeq(ids, LAMBDA id : id \notin Range(hash_order))

\* Series.cumsum(): NaN is skipped and stays NaN.
RECURSIVE CumSum(_, _)
CumSum(values, sofar) ==
    IF values = <<>> THEN <<>>
    ELSE IF IsNaN(Head(values)) THEN <<NaN>> \o CumSum(Tail(values), sofar)
    ELSE <<FAdd(sofar, Head(values))>> \o CumSum(Tail(values), FAdd(sofar, Head(values)))

\* Lines 308-316: the failed_<endpoint>_<sensor id> columns are listed first.
RECURSIVE FailureStep(_, _)
FailureStep(d, cols) ==
    IF cols = <<>> THEN d
    ELSE FailureStep(
            SetColumn(d, <<"cumulative_failures", Head(cols)[2], Head(cols)[3]>>,
                      CumSum(Column(d, Head(cols)), Int2F(0))),
            Tail(cols))

FailureStepOf(d) == FailureStep(d, ColumnsOf(d, "failed"))

\* Lines 238-316, on the frame the interval step leaves.
LaterSteps(d, sensor_temp_cols, hash_order) ==
    FailureStepOf(
        StabilityStep(
            RollingStep(LatencyStep(NetworkStep(d)), sensor_temp_cols),
            SensorIdsIn(sensor_temp_cols, hash_order)))

\* Lines 192-316, on the frame the bucket step leaves.
TemperatureSteps(d, sensor_temp_cols, hash_order) ==
    Then(IntervalStep(Ok(DeviationStep(d, sensor_temp_cols)), sensor_temp_cols),
         LAMBDA v : Ok(LaterSteps(v, sensor_temp_cols, hash_order)))

AfterBucketStep(r, hash_order) ==
    IF Raised(r) THEN r ELSE TemperatureSteps(r.val, SensorTempCols(r.val), hash_order)

calculate_derived_metrics(d, hash_order) ==
    IF IsEmpty(d) THEN Ok(d) ELSE AfterBucketStep(BucketStep(d), hash_order)

\* Lines 473-479.
standardize_processor_output(d) ==
    IF HasColumn(d, <<"response_time_ms">>) THEN d
    ELSE SetColumn(d, <<"response_time_ms">>, [i \in DOMAIN d.rows |-> NaN])

(***************************************************************************)
(* process_dataset.                                                        *)
(***************************************************************************)
\* Lines 519-536: the frames of the phases that produced records, combined.
CombinedFrame(baseline_metrics, event_metrics, recovery_metrics) ==
    Concat(SelectSeq(<<DataFrame(baseline_metrics), DataFrame(event_metrics),
                       DataFrame(recovery_metrics)>>,
                     LAMBDA d : ~IsEmpty(d)))

\* recovery_file is NoFile when the caller passes None.
NoFile == [readable |-> FALSE, lines |-> <<>>, none |-> TRUE]

\* Lines 539-545, on the outcome of calculate_derived_metrics.
Standardized(derived) ==
    IF Raised(derived) THEN derived ELSE Ok(standardize_processor_output(derived.val))

\* Lines 532-545.
ProcessFrame(combined_df, hash_order) ==
    IF IsEmpty(combined_df) THEN Ok(EmptyDF)
    ELSE Standardized(calculate_derived_metrics(combined_df, hash_order))

\* Lines 519-545, on the outcomes of the three extractions.
ProcessMetrics(baseline_metrics, event_metrics, recovery_metrics, hash_order) ==
    IF Raised(baseline_metrics) THEN baseline_metrics
    ELSE IF Raised(event_metrics) THEN event_metrics
    ELSE IF Raised(recovery_metrics) THEN recovery_metrics
    ELSE ProcessFrame(CombinedFrame(baseline_metrics.val, event_metrics.val,
                                    recovery_metrics.val),
                      hash_order)

\* Lines 513-516.
RecoveryMetrics(recovery_data, vulnerability_type) ==
    IF recovery_data # <<>>
    THEN extract_metrics(recovery_data, "recovery", vulnerability_type)
    ELSE Ok(<<>>)

\* Lines 501-504.
RecoveryData(recovery_file) ==
    IF recovery_file = NoFile THEN <<>> ELSE load_jsonl(recovery_file).data

process_dataset(baseline_file, event_file, recovery_file, vulnerability_type, hash_order) ==
    ProcessMetrics(
        extract_metrics(load_jsonl(baseline_file).data, "baseline", vulnerability_type),
        extract_metrics(load_jsonl(event_file).data, "event", vulnerability_type),
        RecoveryMetrics(RecoveryData(recovery_file), vulnerability_type),
        hash_order)

(***************************************************************************)
(* calculate_percent_increase and safe_divide.                             *)
(***************************************************************************)
\* The guard of both helpers is missing: the mutant divides whatever it gets.
calculate_percent_increase_unguarded(baseline, new) ==
    FMul(FSub(FDiv(new, baseline), Int2F(1)), Int2F(100))

calculate_percent_increase(baseline, new) ==
    IF IsNaN(baseline) \/ IsNaN(new) \/ FEq(baseline, Int2F(0))
    THEN NaN
    ELSE FMul(FSub(FDiv(new, baseline), Int2F(1)), Int2F(100))

\* safe_divide without its guard.
safe_divide_unguarded(numerator, denominator) == FDiv(numerator, denominator)

safe_divide(numerator, denominator) ==
    IF IsNaN(numerator) \/ IsNaN(denominator) \/ FEq(denominator, Int2F(0))
    THEN NaN
    ELSE FDiv(numerator, denominator)

(***************************************************************************)
(* analyze_impact.                                                         *)
(***************************************************************************)
RECURSIVE Sum(_)
Sum(values) == IF values = <<>> THEN Int2F(0) ELSE FAdd(Head(values), Sum(Tail(values)))

RECURSIVE Largest(_)
Largest(values) ==
    IF Len(values) = 1 THEN Head(values) ELSE FMax(Head(values), Largest(Tail(values)))

DropNa(values) == SelectSeq(values, LAMBDA v : ~IsNaN(v))

\* Series.mean(), np.nanmean(): the mean of the values that are not NaN.
SeriesMean(values) ==
    IF DropNa(values) = <<>> THEN NaN
    ELSE FDiv(Sum(DropNa(values)), Int2F(Len(DropNa(values))))

\* Series.max(), np.nanmax(): the largest of the values that are not NaN.
SeriesMax(values) == IF DropNa(values) = <<>> THEN NaN ELSE Largest(DropNa(values))

\* np.mean(list) if list else np.nan: a NaN in the list makes the mean NaN.
NpMean(values) ==
    IF values = <<>> THEN NaN ELSE FDiv(Sum(values), Int2F(Len(values)))

\* np.max(list) if list else np.nan
NpMax(values) ==
    IF values = <<>> THEN NaN
    ELSE IF \E i \in DOMAIN values : IsNaN(values[i]) THEN NaN
    ELSE Largest(values)

\* The column groups of lines 580-590, by the parts of the column name.
IsCpuCol(col) == col[1] \in {"cpu", "cpu_total"}

IsMemCol(col) == col[1] \in {"memory", "memory_total"}

IsTempDevCol(col) == col[1] \in {"sensor_true_dev", "gateway_true_dev"}

IsLatencyMsCol(col) == col[1] = "latency_ms" /\ Len(col) = 3

IsIntervalCol(col) == col[1] = "reporting_interval"

IsStabilityCol(col) == col[1] = "interval_stability"

IsSentRateCol(col) == col[1] = "network_sent_rate"

\* The values of column col in the rows of the group.
GroupColumn(phase_df, col) == [i \in DOMAIN phase_df |-> phase_df[i].cells[col]]

\* Line 614 selecting on the fault type alone.
PhaseRows_any_phase(d, fault, phase) ==
    SelectSeq(d.rows, LAMBDA r : r.vulnerability_type = fault)

\* Line 614: the rows of one fault type and phase.
PhaseRows(d, fault, phase) ==
    SelectSeq(d.rows, LAMBDA r : r.vulnerability_type = fault /\ r.phase = phase)

\* Lines 664-669, 675-678 and 684-688: the mean of the values kept by the filter,
\* for each column that has any.
FilteredMeans(phase_df, cols, Keep(_)) ==
    LET means == [i \in DOMAIN cols |->
                    LET valid == SelectSeq(DropNa(GroupColumn(phase_df, cols[i])), Keep)
                    IN  IF valid = <<>> THEN <<>> ELSE <<SeriesMean(valid)>>]
    IN  Flatten(means)

\* Lines 620-625 and 694: the mean over the columns of each column's mean.
AverageOfColumns(phase_df, cols) ==
    NpMean([i \in DOMAIN cols |-> SeriesMean(GroupColumn(phase_df, cols[i]))])

\* Lines 620-625 and 695: the largest over the columns of each column's maximum.
MaxOfColumns(phase_df, cols) ==
    NpMax([i \in DOMAIN cols |-> SeriesMax(GroupColumn(phase_df, cols[i]))])

\* The interval filter without its upper limit.
ValidInterval_unbounded(v) == FLt(Int2F(0), v)

\* Lines 666-667: valid_intervals > 0 and valid_intervals < 30.
ValidInterval(v) == FLt(Int2F(0), v) /\ FLt(v, Int2F(30))

\* Lines 619-705: the summary row of one group.
SummaryRow(d, vulnerability_type, fault, phase) ==
    LET phase_df == PhaseRows(d, fault, phase)
        cpu_cols == SelectSeq(d.columns, IsCpuCol)
        mem_cols == SelectSeq(d.columns, IsMemCol)
        temp_dev_cols == SelectSeq(d.columns, IsTempDevCol)
        latency_ms_cols == SelectSeq(d.columns, IsLatencyMsCol)
        latency_cols == IF latency_ms_cols = <<>> /\ HasColumn(d, <<"response_time_ms">>)
                        THEN <<<<"response_time_ms">>>> ELSE latency_ms_cols
        avg_latency == [i \in DOMAIN latency_cols |->
                          SeriesMean(GroupColumn(phase_df, latency_cols[i]))]
        max_latency == [i \in DOMAIN latency_cols |->
                          SeriesMax(GroupColumn(phase_df, latency_cols[i]))]
        avg_interval == FilteredMeans(phase_df, SelectSeq(d.columns, IsIntervalCol),
                            ValidInterval)
        stability_metric == FilteredMeans(phase_df, SelectSeq(d.columns, IsStabilityCol),
                            LAMBDA v : TRUE)
        network_rates == FilteredMeans(phase_df, SelectSeq(d.columns, IsSentRateCol),
                            LAMBDA v : FLt(Int2F(0), v))
    IN  [vulnerability_type |-> vulnerability_type,
         fault_type |-> fault,
         phase |-> phase,
         avg_cpu |-> AverageOfColumns(phase_df, cpu_cols),
         max_cpu |-> MaxOfColumns(phase_df, cpu_cols),
         avg_memory |-> AverageOfColumns(phase_df, mem_cols),
         max_memory |-> MaxOfColumns(phase_df, mem_cols),
         avg_temp_deviation |-> AverageOfColumns(phase_df, temp_dev_cols),
         max_temp_deviation |-> MaxOfColumns(phase_df, temp_dev_cols),
         avg_latency_ms |-> IF avg_latency = <<>> THEN NaN ELSE SeriesMean(avg_latency),
         max_latency_ms |-> IF max_latency = <<>> THEN NaN ELSE SeriesMax(max_latency),
         avg_reporting_interval |-> NpMean(avg_interval),
         interval_stability |-> NpMean(stability_metric),
         network_egress_rate |-> NpMean(network_rates),
         measurements |-> Len(phase_df)]

\* The loops of lines 612-613 without the skip of an empty group.
SummaryFrame_every_pair(d, vulnerability_type) ==
    LET fault_types == Unique([i \in DOMAIN d.rows |-> d.rows[i].vulnerability_type])
        phases == Unique([i \in DOMAIN d.rows |-> d.rows[i].phase])
    IN  Flatten([f \in DOMAIN fault_types |->
                    [p \in DOMAIN phases |->
                        SummaryRow(d, vulnerability_type, fault_types[f], phases[p])]])

\* Lines 612-708: one row per fault type and phase that has rows, fault by fault.
SummaryFrame(d, vulnerability_type) ==
    LET fault_types == Unique([i \in DOMAIN d.rows |-> d.rows[i].vulnerability_type])
        phases == Unique([i \in DOMAIN d.rows |-> d.rows[i].phase])
        group(fault, phase) ==
            IF PhaseRows(d, fault, phase) = <<>> THEN <<>>
            ELSE <<SummaryRow(d, vulnerability_type, fault, phase)>>
    IN  Flatten([f \in DOMAIN fault_types |->
                    Flatten([p \in DOMAIN phases |-> group(fault_types[f], phases[p])])])

\* Lines 724-735: the percent changes from the baseline row to the event row.
PercentChanges(vulnerability_type, fault, baseline, event) ==
    [vulnerability_type |-> vulnerability_type,
     fault_type |-> fault,
     detection_probability |-> NaN,
     cpu_increase_percent |->
        calculate_percent_increase(baseline.avg_cpu, event.avg_cpu),
     memory_increase_percent |->
        calculate_percent_increase(baseline.avg_memory, event.avg_memory),
     temp_deviation_increase_percent |->
        calculate_percent_increase(baseline.avg_temp_deviation, event.avg_temp_deviation),
     latency_increase_percent |->
        calculate_percent_increase(baseline.avg_latency_ms, event.avg_latency_ms),
     reporting_interval_change_percent |->
        calculate_percent_increase(baseline.avg_reporting_interval,
                                   event.avg_reporting_interval),
     interval_stability_change_percent |->
        calculate_percent_increase(baseline.interval_stability, event.interval_stability),
     network_rate_increase_percent |->
        calculate_percent_increase(baseline.network_egress_rate, event.network_egress_rate)]

\* Lines 738-742: the recovery ratios.
RecoveryRatios(baseline, recovery) ==
    [recovery_cpu_ratio |-> safe_divide(recovery.avg_cpu, baseline.avg_cpu),
     recovery_memory_ratio |-> safe_divide(recovery.avg_memory, baseline.avg_memory),
     recovery_latency_ratio |->
        safe_divide(recovery.avg_latency_ms, baseline.avg_latency_ms),
     recovery_interval_ratio |->
        safe_divide(recovery.avg_reporting_interval, baseline.avg_reporting_interval)]

\* The skip of line 720 taken on a missing recovery summary as well.
ImpactOf_needs_recovery(summary, vulnerability_type, fault) ==
    LET baseline == SelectSeq(summary,
                        LAMBDA r : r.fault_type = fault /\ r.phase = "baseline")
        event == SelectSeq(summary, LAMBDA r : r.fault_type = fault /\ r.phase = "event")
        recovery == SelectSeq(summary,
                        LAMBDA r : r.fault_type = fault /\ r.phase = "recovery")
    IN  IF baseline = <<>> \/ event = <<>> \/ recovery = <<>> THEN <<>>
        ELSE <<PercentChanges(vulnerability_type, fault, baseline[1], event[1])
                 @@ RecoveryRatios(baseline[1], recovery[1])>>

\* Lines 713-748: the impact record of one fault type, if it has one.  The
\* recovery ratios are keys of the record only when a recovery row exists.
ImpactOf(summary, vulnerability_type, fault) ==
    LET baseline == SelectSeq(summary,
                        LAMBDA r : r.fault_type = fault /\ r.phase = "baseline")
        event == SelectSeq(summary, LAMBDA r : r.fault_type = fault /\ r.phase = "event")
        recovery == SelectSeq(summary,
                        LAMBDA r : r.fault_type = fault /\ r.phase = "recovery")
    IN  IF baseline = <<>> \/ event = <<>> THEN <<>>
        ELSE IF recovery = <<>>
        THEN <<PercentChanges(vulnerability_type, fault, baseline[1], event[1])>>
        ELSE <<PercentChanges(vulnerability_type, fault, baseline[1], event[1])
                 @@ RecoveryRatios(baseline[1], recovery[1])>>

\* Lines 569-574: the method columns as strings (the latency values are floats
\* already, pd.to_numeric leaves them as they are).
MethodColumnsAsStr(d) == MethodsAsStr(d, d.columns)

\* Lines 559-565: the function imports pandas as pd in its own body (line 563),
\* which makes pd a local name of the whole function, so the pd.DataFrame() of
\* the empty-table return (line 561) reads a local that is not bound yet.
\* The value returned otherwise: the table as the assignments of lines 569-574
\* leave it (they write into the table passed in), the summary and the impact
\* records.
analyze_impact(d, vulnerability_type) ==
    IF IsEmpty(d) THEN Raise("UnboundLocalError")
    ELSE LET typed == MethodColumnsAsStr(d)
             summary == SummaryFrame(typed, vulnerability_type)
             fault_types == Unique([i \in DOMAIN typed.rows |->
                                        typed.rows[i].vulnerability_type])
         IN  Ok([df |-> typed,
                 summary_df |-> summary,
                 impact_df |-> Flatten([f \in DOMAIN fault_types |->
                                ImpactOf(summary, vulnerability_type, fault_types[f])])])

(***************************************************************************)
(* command_injection_processor.py: analyze_command_injection_impact.  The  *)
(* plots of create_command_injection_visualizations and the CSV files are  *)
(* left out: they change no value returned.                                *)
(***************************************************************************)
\* Lines 83-91: Series.map(phase_mapping); a phase that is no key maps to NaN.
StandardPhase(phase) ==
    CASE phase = "baseline" -> Str("baseline")
      [] phase = "install"  -> Str("event")
      [] phase = "shell"    -> Str("event")
      [] phase = "recovery" -> Str("recovery")
      [] OTHER              -> NaN

\* Lines 80-91: the copy of the table with the column standard_phase added.
AnalysisFrame(d) ==
    SetColumn(d, <<"standard_phase">>,
              [i \in DOMAIN d.rows |-> StandardPhase(d.rows[i].phase)])

\* Lines 140-150: np.mean over the columns of each column's mean in the rows
\* of one phase.
PhaseMean(d, fault, phase, IsCol(_)) ==
    AverageOfColumns(PhaseRows(d, fault, phase), SelectSeq(d.columns, IsCol))

\* Lines 130-163: the install and shell record of one fault type, if it has
\* rows in the baseline, the install and the shell phase.
PhaseImpactOf(d, fault) ==
    IF \E phase \in {"baseline", "install", "shell"} : PhaseRows(d, fault, phase) = <<>>
    THEN <<>>
    ELSE <<[fault_type |-> fault,
            install_cpu_percent |->
                calculate_percent_increase(PhaseMean(d, fault, "baseline", IsCpuCol),
                                           PhaseMean(d, fault, "install", IsCpuCol)),
            install_memory_percent |->
                calculate_percent_increase(PhaseMean(d, fault, "baseline", IsMemCol),
                                           PhaseMean(d, fault, "install", IsMemCol)),
            install_temp_dev_percent |->
                calculate_percent_increase(PhaseMean(d, fault, "baseline", IsTempDevCol),
                                           PhaseMean(d, fault, "install", IsTempDevCol)),
            shell_cpu_percent |->
                calculate_percent_increase(PhaseMean(d, fault, "baseline", IsCpuCol),
                                           PhaseMean(d, fault, "shell", IsCpuCol)),
            shell_memory_percent |->
                calculate_percent_increase(PhaseMean(d, fault, "baseline", IsMemCol),
                                           PhaseMean(d, fault, "shell", IsMemCol)),
            shell_temp_dev_percent |->
                calculate_percent_increase(PhaseMean(d, fault, "baseline", IsTempDevCol),
                                           PhaseMean(d, fault, "shell", IsTempDevCol)),
            shell_vs_install_cpu |->
                calculate_percent_increase(PhaseMean(d, fault, "install", IsCpuCol),
                                           PhaseMean(d, fault, "shell", IsCpuCol))]>>

FaultTypes(d) == Unique([i \in DOMAIN d.rows |-> d.rows[i].vulnerability_type])

calculate_command_injection_phases_impact(d) ==
    IF IsEmpty(d) THEN <<>>
    ELSE Flatten([f \in DOMAIN FaultTypes(d) |-> PhaseImpactOf(d, FaultTypes(d)[f])])

PhaseImpactFields ==
    {"install_cpu_percent", "install_memory_percent", "install_temp_dev_percent",
     "shell_cpu_percent", "shell_memory_percent", "shell_temp_dev_percent",
     "shell_vs_install_cpu"}

\* Lines 100-110: pd.merge(impact_df, additional, on='fault_type', how='left')
\* when neither is empty.
FullImpact(impact_df_, additional) ==
    IF additional = <<>> \/ impact_df_ = <<>> THEN impact_df_
    ELSE [i \in DOMAIN impact_df_ |->
            IF \E j \in DOMAIN additional : additional[j].fault_type = impact_df_[i].fault_type
            THEN additional[CHOOSE j \in DOMAIN additional :
                                additional[j].fault_type = impact_df_[i].fault_type]
                    @@ impact_df_[i]
            ELSE impact_df_[i] @@ [f \in PhaseImpactFields |-> NaN]]

\* Lines 73-114 on a table that is not empty.
AnalyzedInjection(r, additional) ==
    IF Raised(r) THEN r
    ELSE Ok([summary_df |-> r.val.summary_df,
             impact_df |-> FullImpact(r.val.impact_df, additional)])

analyze_command_injection_impact(d) ==
    IF IsEmpty(d) THEN Ok([summary_df |-> <<>>, impact_df |-> <<>>])
    ELSE AnalyzedInjection(analyze_impact(AnalysisFrame(d), "command_injection"),
                           calculate_command_injection_phases_impact(d))

(***************************************************************************)
(* The parts of the state a run does not use.                              *)
(***************************************************************************)
NoLoader == file = TextFile(<<>>) /\ data = <<>> /\ log = <<>>

NoExtract == jsonl_data = <<>> /\ metrics = <<>>

NoHelpers == baseline_value = NaN /\ new_value = NaN /\ result = NaN

NoCalls == given = <<>> /\ kept = <<>> /\ runs = <<>>

NoPipeline ==
    /\ files = [baseline |-> TextFile(<<>>), event |-> TextFile(<<>>),
                recovery |-> TextFile(<<>>)]
    /\ summary_df = <<>>
    /\ impact_df = <<>>

(***************************************************************************)
(* load_jsonl on one file.                                                 *)
(***************************************************************************)
MaxLines == 3

\* A metrics snapshot with one CPU reading, as the collector writes it.
CpuSnapshot(timestamp, sensor_id, value) ==
    Snapshot("metrics", Int2F(timestamp),
             <<<<"sensor_cpu_usage_percent",
                 <<Entry(<<<<"sensor_id", sensor_id>>>>, Num(Int2F(value)))>>>>>>)

LoaderLines ==
    {Parsed(CpuSnapshot(0, "X", 10)), Parsed(JsonArray), Malformed, Unparsable}

\* The sequences over S of length at most n.
SeqsUpTo(S, n) == UNION {[1..m -> S] : m \in 0..n}

InitLoad ==
    /\ pc = "file"
    /\ file \in {Unreadable} \cup {TextFile(lines) : lines \in SeqsUpTo(LoaderLines, MaxLines)}
    /\ data = <<>>
    /\ log = <<>>
    /\ NoExtract
    /\ NoHelpers
    /\ df = EmptyDF
    /\ error = ""
    /\ NoPipeline
    /\ NoCalls

LoadJsonl ==
    /\ pc = "file"
    /\ LET r == load_jsonl(file)
       IN  data' = r.data /\ log' = r.log
    /\ pc' = "loaded"
    /\ UNCHANGED <<file, extractVars, helperVars, pipelineVars, df, error, callVars>>

NextLoad == LoadJsonl

SpecLoad == InitLoad /\ [][NextLoad]_vars

\* The values of the lines that parse, in file order.
RECURSIVE ParsedValues(_)
ParsedValues(lines) ==
    IF lines = <<>> THEN <<>>
    ELSE (IF Head(lines).parse = "ok" THEN <<Head(lines).value>> ELSE <<>>)
            \o ParsedValues(Tail(lines))

Count(seq, x) == Cardinality({i \in DOMAIN seq : seq[i] = x})

\* C1: load_jsonl never raises; a readable file yields exactly the lines that
\* parse, in file order, with one warning per malformed line; an unreadable
\* path yields the empty list.
C1_LoaderSkipsMalformed ==
    pc = "loaded" =>
        /\ error = ""
        /\ file.readable =>
              /\ data = ParsedValues(file.lines)
              /\ Count(log, "Error parsing line") = Count(file.lines, Malformed)
        /\ ~file.readable => data = <<>>

(***************************************************************************)
(* extract_metrics on one snapshot holding one entry.                      *)
(***************************************************************************)
Scalars == {Num(Int2F(10)), Text("40"), Text("abc"), Null, Object, List(<<>>)}

\* A bare value, a one-element list, a [timestamp, value] pair.
RawValues ==
    Scalars \cup {List(<<x>>) : x \in Scalars}
            \cup {List(<<Num(Int2F(0)), x>>) : x \in Scalars}

MetricKinds ==
    {"sensor_temperature", "gateway_temperature", "dataserver_temperature",
     "sensor_cpu_usage_percent", "sensor_memory_usage_mb", "sensor_fault_mode",
     "sensor_network_sent_bytes", "sensor_network_received_bytes"}

InitExtract ==
    /\ pc = "snapshots"
    /\ \E kind \in MetricKinds : \E raw \in RawValues :
          jsonl_data = <<Snapshot("metrics", Int2F(0),
                            <<<<kind, <<Entry(<<<<"sensor_id", "X">>>>, raw)>>>>>>)>>
    /\ metrics = <<>>
    /\ NoLoader
    /\ NoHelpers
    /\ df = EmptyDF
    /\ error = ""
    /\ NoPipeline
    /\ NoCalls

ExtractMetrics ==
    /\ pc = "snapshots"
    /\ LET r == extract_metrics(jsonl_data, "baseline", "bola")
       IN  metrics' = r.val /\ error' = r.exc
    /\ pc' = "extracted"
    /\ UNCHANGED <<loaderVars, jsonl_data, helperVars, pipelineVars, df, callVars>>

NextExtract == ExtractMetrics

SpecExtract == InitExtract /\ [][NextExtract]_vars

\* The raw value of the entry, and whether float() accepts it.
EntryValue == jsonl_data[1].metrics[1][2][1].value

Coercible(raw) == raw.t = "num" \/ (raw.t = "str" /\ raw.s = "40")

\* The part of the raw value the code converts: the second element of a list
\* of two, the element of a list of one, the value itself otherwise.
ConvertedPart(raw) ==
    IF raw.t = "list" /\ Len(raw.items) > 1 THEN raw.items[2]
    ELSE IF raw.t = "list" /\ Len(raw.items) = 1 THEN raw.items[1]
    ELSE raw

\* C2: extract_metrics never raises on an entry's value, and a value that cannot
\* be coerced, bare or second of a pair, is 0.0 in the record's column.
C2_CoercionNeverRaises ==
    pc = "extracted" =>
        /\ error = ""
        /\ ~Coercible(ConvertedPart(EntryValue)) =>
              /\ Len(metrics) = 1
              /\ metrics[1].cells[1][2] = Int2F(0)

(***************************************************************************)
(* process_latency_buckets on one row: the histogram of one endpoint of    *)
(* one sensor, as extract_metrics leaves it in the row's bucket cell.      *)
(***************************************************************************)
MaxCount == 2

\* Cumulative counts tried: small integers, halves (differences below 1),
\* 19 of 20 (a count equal to 0.95 of the total), and the values float() gives
\* for "+Inf" and "NaN".
HistCounts ==
    {Int2F(i) : i \in 0..MaxCount}
        \cup {Fin(1, 2), Fin(3, 2), Int2F(19), Int2F(20), PInf, NaN}

\* Bucket labels in the order the histogram is exported.
HistLabels == <<"0.05", "0.1", "0.5", "+Inf">>

\* The buckets dict holding the labels of S with the counts c, in export order.
RECURSIVE BucketDict(_, _, _)
BucketDict(S, c, i) ==
    IF i > Len(HistLabels) THEN <<>>
    ELSE (IF HistLabels[i] \in S THEN <<<<HistLabels[i], c[HistLabels[i]]>>>> ELSE <<>>)
            \o BucketDict(S, c, i + 1)

\* The frame of one record whose only metric is that histogram of endpoint
\* "temperature" of sensor "X".
HistFrame(buckets) ==
    [columns |-> <<<<"latency", "temperature", "X">>, <<"bucket">>>>,
     rows |-> <<[index |-> 0, timestamp |-> Int2F(0), phase |-> "baseline",
                 vulnerability_type |-> "bola",
                 cells |-> (<<"latency", "temperature", "X">> :> buckets[Len(buckets)][2])
                           @@ (<<"bucket">> :>
                                 Dict(<<<<"X", <<<<"temperature", buckets>>>>>>>>))]>>]

InitHist ==
    /\ pc = "frame"
    /\ \E S \in (SUBSET Range(HistLabels)) \ {{}} :
         \E c \in [S -> HistCounts] : df = HistFrame(BucketDict(S, c, 1))
    /\ error = ""
    /\ NoLoader
    /\ NoExtract
    /\ NoHelpers
    /\ NoPipeline
    /\ NoCalls

ProcessLatencyBuckets ==
    /\ pc = "frame"
    /\ LET r == process_latency_buckets(df)
       IN  /\ df' = IF Raised(r) THEN df ELSE r.val
           /\ error' = r.exc
    /\ pc' = "latency"
    /\ UNCHANGED <<loaderVars, extractVars, helperVars, pipelineVars, callVars>>

NextHist == ProcessLatencyBuckets

SpecHist == InitHist /\ [][NextHist]_vars

\* The histogram of the row, read back from its bucket cell.
RowBuckets == df.rows[1].cells[<<"bucket">>].items[1][2][1][2]

\* Bucket bounds in milliseconds, by label.
BoundMs(label) ==
    CASE label = "0.05" -> 50 [] label = "0.1" -> 100 [] label = "0.5" -> 500

FiniteBuckets == SelectSeq(RowBuckets, LAMBDA b : b[1] # "+Inf")

HasInfBucket == \E i \in DOMAIN RowBuckets : RowBuckets[i][1] = "+Inf"

\* The +inf bucket's count, or the last finite bucket's count without one.
TotalCount ==
    IF HasInfBucket THEN RowBuckets[Len(RowBuckets)][2]
    ELSE FiniteBuckets[Len(FiniteBuckets)][2]

\* 20 times the target count 0.95 x total, and 20 times the count of bucket i.
Target20 == FMul(TotalCount, Int2F(19))

Count20(i) == FMul(FiniteBuckets[i][2], Int2F(20))

LatencyCell == df.rows[1].cells[LatencyCol("temperature", "X")]

FlagCell == df.rows[1].cells[FlagCol("temperature", "X")]

MethodCell == df.rows[1].cells[MethodCol("temperature", "X")]

\* C4: with at least two finite buckets and a positive total, the estimate is a
\* defined number between the smallest and the largest finite bound, in ms.
C4_EstimateWithinBounds ==
    (pc = "latency" /\ Len(FiniteBuckets) >= 2 /\ FLt(Int2F(0), TotalCount)) =>
        /\ IsFin(LatencyCell)
        /\ FLe(Int2F(BoundMs(FiniteBuckets[1][1])), LatencyCell)
        /\ FLe(LatencyCell, Int2F(BoundMs(FiniteBuckets[Len(FiniteBuckets)][1])))

\* Some adjacent finite pair has count_i < target < count_i+1.
TargetStrictlyInside ==
    \E i \in 1..(Len(FiniteBuckets) - 1) :
        FLt(Count20(i), Target20) /\ FLt(Target20, Count20(i + 1))

\* Some adjacent finite pair has count_i <= target <= count_i+1.
TargetInside ==
    \E i \in 1..(Len(FiniteBuckets) - 1) :
        FLe(Count20(i), Target20) /\ FLe(Target20, Count20(i + 1))

\* C5 as stated: is_estimated is false only when the target count falls strictly
\* between the counts of two adjacent finite buckets.
C5_StrictlyBetween ==
    (pc = "latency" /\ FlagCell = Bool(FALSE)) => TargetStrictlyInside

\* C5 as amended: is_estimated is false exactly when there are two finite buckets,
\* a positive total, and an adjacent pair with count_i <= target <= count_i+1
\* (bounds included); otherwise it is true.
C5_InclusiveBetween ==
    pc = "latency" =>
        /\ FlagCell \in {Bool(FALSE), Bool(TRUE)}
        /\ FlagCell = Bool(FALSE) <=>
              (Len(FiniteBuckets) >= 2 /\ FLt(Int2F(0), TotalCount) /\ TargetInside)

C5_Witness ==
    /\ pc = "latency"
    /\ FlagCell = Bool(FALSE)
    /\ ~TargetStrictlyInside
    /\ \E i \in DOMAIN FiniteBuckets : Count20(i) = Target20

\* The first adjacent finite pair with count_i <= target <= count_i+1.
FirstPair ==
    CHOOSE i \in 1..(Len(FiniteBuckets) - 1) :
        /\ FLe(Count20(i), Target20) /\ FLe(Target20, Count20(i + 1))
        /\ \A j \in 1..(i - 1) :
              ~(FLe(Count20(j), Target20) /\ FLe(Target20, Count20(j + 1)))

\* bound_i + (target - count_i) / (count_i+1 - count_i) x (bound_i+1 - bound_i),
\* in ms, for the pair starting at bucket i.
LinearEstimate(i) ==
    FAdd(Int2F(BoundMs(FiniteBuckets[i][1])),
         FMul(FDiv(FSub(FDiv(Target20, Int2F(20)), FiniteBuckets[i][2]),
                   FSub(FiniteBuckets[i + 1][2], FiniteBuckets[i][2])),
              Int2F(BoundMs(FiniteBuckets[i + 1][1]) - BoundMs(FiniteBuckets[i][1]))))

\* C20: with at least two finite buckets, finite counts and a positive total,
\* when the target lies between the counts of an adjacent finite pair and the
\* counts of the first such pair differ, the estimate is the linear
\* interpolation inside that pair, with method interpolation.
C20_LinearInterpolation ==
    (/\ pc = "latency"
     /\ Len(FiniteBuckets) >= 2
     /\ \A i \in DOMAIN RowBuckets : IsFin(RowBuckets[i][2])
     /\ FLt(Int2F(0), TotalCount)
     /\ TargetInside
     /\ FLt(FiniteBuckets[FirstPair][2], FiniteBuckets[FirstPair + 1][2])) =>
        /\ MethodCell = Str("interpolation")
        /\ LatencyCell = LinearEstimate(FirstPair)

\* The counts of the row are finite and do not decrease from one bound to the
\* next, as the cumulative counts of a histogram are.
CumulativeCounts ==
    /\ \A i \in DOMAIN RowBuckets : IsFin(RowBuckets[i][2])
    /\ \A i \in 1..(Len(RowBuckets) - 1) : FLe(RowBuckets[i][2], RowBuckets[i + 1][2])

\* C21: when the method written is highest_bucket, the target count
\* 0.95 x total is above the cumulative count of every finite bucket.
C21_HighestBucketAboveAll ==
    (pc = "latency" /\ CumulativeCounts /\ MethodCell = Str("highest_bucket")) =>
        \A i \in DOMAIN FiniteBuckets : FLt(Count20(i), Target20)

Methods ==
    {"interpolation", "highest_bucket", "single_bucket", "only_inf_bucket",
     "zero_counts", "insufficient_buckets", "no_data"}

UndefinedMethods == {"no_data", "only_inf_bucket", "zero_counts", "insufficient_buckets"}

\* C22: for the (sensor, endpoint) of the row's histogram the method is one of
\* the seven, is_estimated is false exactly for interpolation, and the latency
\* is NaN exactly for no_data, only_inf_bucket, zero_counts and
\* insufficient_buckets.
C22_MethodFlagLatency ==
    pc = "latency" =>
        /\ MethodCell \in {Str(m) : m \in Methods}
        /\ FlagCell = Bool(FALSE) <=> MethodCell = Str("interpolation")
        /\ IsNaN(LatencyCell) <=> MethodCell \in {Str(m) : m \in UndefinedMethods}

\* C6 as stated: exactly one finite bucket, with or without a +inf bucket, gives
\* that bucket's bound in ms, single_bucket, is_estimated true.
C6_SingleBucketAlways ==
    (pc = "latency" /\ Len(FiniteBuckets) = 1) =>
        /\ LatencyCell = Int2F(BoundMs(FiniteBuckets[1][1]))
        /\ MethodCell = Str("single_bucket")
        /\ FlagCell = Bool(TRUE)

\* C6 as amended: one finite bucket and no +inf bucket gives the bound in ms as
\* single_bucket; one finite bucket beside a +inf bucket gives NaN as
\* insufficient_buckets; is_estimated is true in both.
C6_SingleBucketAlone ==
    (pc = "latency" /\ Len(FiniteBuckets) = 1) =>
        /\ FlagCell = Bool(TRUE)
        /\ ~HasInfBucket =>
              /\ LatencyCell = Int2F(BoundMs(FiniteBuckets[1][1]))
              /\ MethodCell = Str("single_bucket")
        /\ HasInfBucket =>
              /\ IsNaN(LatencyCell)
              /\ MethodCell = Str("insufficient_buckets")

C6_Witness ==
    /\ pc = "latency"
    /\ Len(FiniteBuckets) = 1
    /\ HasInfBucket
    /\ FLt(Int2F(0), TotalCount)
    /\ MethodCell = Str("insufficient_buckets")

\* C7: a bucket set holding only a +inf bucket gives only_inf_bucket, NaN and
\* is_estimated true, whatever the count.
C7_OnlyInfBucket ==
    (pc = "latency" /\ Len(FiniteBuckets) = 0) =>
        /\ IsNaN(LatencyCell)
        /\ MethodCell = Str("only_inf_bucket")
        /\ FlagCell = Bool(TRUE)

C7_Witness ==
    /\ pc = "latency"
    /\ Len(FiniteBuckets) = 0
    /\ TotalCount = Int2F(20)
    /\ MethodCell = Str("only_inf_bucket")

(***************************************************************************)
(* process_dataset followed by analyze_impact on the files of one          *)
(* experiment label.                                                       *)
(***************************************************************************)
MaxRows == 3

\* The experiment label of the run.
Label == "bola"

\* Baseline, event and recovery files holding at most MaxRows lines together,
\* each line one of feed; the recovery file may be left out.
FilesOf(feed, nb, ne) ==
    {[baseline |-> TextFile(b), event |-> TextFile(e), recovery |-> r] :
        b \in [1..nb -> feed], e \in [1..ne -> feed],
        r \in {TextFile(l) : l \in SeqsUpTo(feed, MaxRows - nb - ne)} \cup {NoFile}}

FileSets(feed) ==
    UNION {UNION {FilesOf(feed, nb, ne) : ne \in 0..(MaxRows - nb)} : nb \in 0..MaxRows}

InitPipeline(feed) ==
    /\ pc = "files"
    /\ files \in FileSets(feed)
    /\ summary_df = <<>>
    /\ impact_df = <<>>
    /\ df = EmptyDF
    /\ error = ""
    /\ NoLoader
    /\ NoExtract
    /\ NoHelpers
    /\ NoCalls

\* The orders in which a set of the sensor ids can be iterated.
HashOrders == {<<"X", "Y">>, <<"Y", "X">>}

ProcessDataset ==
    /\ pc = "files"
    /\ \E hash_order \in HashOrders :
        LET r == process_dataset(files.baseline, files.event, files.recovery, Label,
                                 hash_order)
        IN  /\ df' = IF Raised(r) THEN df ELSE r.val
            /\ error' = r.exc
            /\ pc' = IF Raised(r) THEN "raised" ELSE "processed"
    /\ UNCHANGED <<loaderVars, extractVars, helperVars, pipelineVars, callVars>>

AnalyzeImpact ==
    /\ pc = "processed"
    /\ LET r == analyze_impact(df, Label)
       IN  /\ df' = IF Raised(r) THEN df ELSE r.val.df
           /\ summary_df' = IF Raised(r) THEN summary_df ELSE r.val.summary_df
           /\ impact_df' = IF Raised(r) THEN impact_df ELSE r.val.impact_df
           /\ error' = r.exc
           /\ pc' = IF Raised(r) THEN "raised" ELSE "analyzed"
    /\ given' = df
    /\ kept' = df'
    /\ UNCHANGED <<loaderVars, extractVars, helperVars, files, runs>>

NextPipeline == ProcessDataset \/ AnalyzeImpact

(***************************************************************************)
(* Runs on files whose lines may be malformed, no JSON object, or carry a  *)
(* histogram bucket whose le label is no number.                           *)
(***************************************************************************)
BucketSnapshot(timestamp, sensor_id, endpoint, le, count) ==
    Snapshot("metrics", Int2F(timestamp),
             <<<<"sensor_request_latency_seconds_bucket",
                 <<Entry(<<<<"sensor_id", sensor_id>>, <<"endpoint", endpoint>>,
                           <<"le", le>>>>, Num(Int2F(count)))>>>>>>)

RobustLines ==
    {Parsed(CpuSnapshot(0, "X", 10)), Parsed(JsonArray), Malformed,
     Parsed(BucketSnapshot(0, "X", "/temp", "abc", 1)),
     Parsed(BucketSnapshot(0, "X", "/temp", "0.1", 1))}

InitRobust == InitPipeline(RobustLines)

SpecRobust == InitRobust /\ [][NextPipeline]_vars

\* C3: no exception leaves the pipeline, whatever the lines of the files.
C3_PipelineNeverRaises == error = ""

(***************************************************************************)
(* Runs on files of network counter snapshots of one sensor.               *)
(***************************************************************************)
NetworkSnapshot(timestamp, sensor_id, bytes) ==
    Snapshot("metrics", Int2F(timestamp),
             <<<<"sensor_network_sent_bytes",
                 <<Entry(<<<<"sensor_id", sensor_id>>>>, Num(Int2F(bytes)))>>>>>>)

NetworkLines ==
    {Parsed(NetworkSnapshot(t, "X", b)) : t \in {0, 5}, b \in {100, 200}}

InitNetwork == InitPipeline(NetworkLines)

SpecNetwork == InitNetwork /\ [][NextPipeline]_vars

\* The percent-change and recovery-ratio fields of an impact record.
ImpactFields ==
    {"cpu_increase_percent", "memory_increase_percent",
     "temp_deviation_increase_percent", "latency_increase_percent",
     "reporting_interval_change_percent", "interval_stability_change_percent",
     "network_rate_increase_percent", "recovery_cpu_ratio", "recovery_memory_ratio",
     "recovery_latency_ratio", "recovery_interval_ratio"}

\* C9: every percent-change and recovery-ratio field of every impact record
\* is finite or NaN, never infinite.
C9_ImpactNeverInfinite ==
    \A i \in DOMAIN impact_df :
        \A f \in ImpactFields \cap DOMAIN impact_df[i] : ~IsInf(impact_df[i][f])

(***************************************************************************)
(* Runs on files of CPU snapshots of the sensors X and Y.                  *)
(***************************************************************************)
\* A metrics snapshot with a CPU reading of X and one of Y.
CpuSnapshotXY(timestamp, x, y) ==
    Snapshot("metrics", Int2F(timestamp),
             <<<<"sensor_cpu_usage_percent",
                 <<Entry(<<<<"sensor_id", "X">>>>, Num(Int2F(x))),
                   Entry(<<<<"sensor_id", "Y">>>>, Num(Int2F(y)))>>>>>>)

CpuLines ==
    {Parsed(CpuSnapshot(0, "X", 10)), Parsed(CpuSnapshot(0, "X", 40)),
     Parsed(CpuSnapshotXY(0, 10, 40)), Parsed(CpuSnapshotXY(0, 40, 10))}

InitCpu == InitPipeline(CpuLines)

SpecCpu == InitCpu /\ [][NextPipeline]_vars

CpuX == <<"cpu", "X">>

\* The rows of a phase all hold value in cpu_X, and there is such a row.
CpuXConstant(phase, value) ==
    LET phase_rows == SelectSeq(df.rows, LAMBDA r : r.phase = phase)
    IN  /\ phase_rows # <<>>
        /\ \A i \in DOMAIN phase_rows : phase_rows[i].cells[CpuX] = Int2F(value)

\* The analysis has run on a table whose baseline rows all have cpu_X = 10
\* and whose event rows all have cpu_X = 40.
CpuScenario ==
    /\ pc = "analyzed"
    /\ HasColumn(df, CpuX)
    /\ CpuXConstant("baseline", 10)
    /\ CpuXConstant("event", 40)

\* cpu_X is the only column whose name starts with cpu_.
OnlyCpuX == \A i \in DOMAIN df.columns : IsCpuCol(df.columns[i]) => df.columns[i] = CpuX

\* Some CPU column has a defined value in the rows of the group.
SomeCpuDefined(fault, phase) ==
    \E c \in Range(SelectSeq(df.columns, IsCpuCol)) :
        \E i \in DOMAIN df.rows :
            /\ df.rows[i].vulnerability_type = fault
            /\ df.rows[i].phase = phase
            /\ ~IsNaN(df.rows[i].cells[c])

\* C29: avg_cpu of a group is a defined number whenever some CPU column has a
\* defined value in the group.
C29_AverageDefined ==
    pc = "analyzed" =>
        \A s \in DOMAIN summary_df :
            SomeCpuDefined(summary_df[s].fault_type, summary_df[s].phase)
                => ~IsNaN(summary_df[s].avg_cpu)

\* C10 as stated: baseline cpu_X = 10 and event cpu_X = 40 on every row give
\* cpu_increase_percent = 200.0.
C10_CpuIncrease200 ==
    CpuScenario =>
        /\ Len(impact_df) = 1
        /\ impact_df[1].cpu_increase_percent = Int2F(200)

\* C10: baseline cpu_X = 10 and event cpu_X = 40 on every row, cpu_X being the
\* only cpu_ column, give cpu_increase_percent = (40 / 10 - 1) * 100 = 300.0.
C10_CpuIncrease300 ==
    CpuScenario /\ OnlyCpuX =>
        /\ Len(impact_df) = 1
        /\ impact_df[1].fault_type = Label
        /\ impact_df[1].cpu_increase_percent = Int2F(300)

C10_Witness ==
    /\ CpuScenario
    /\ OnlyCpuX
    /\ Len(SelectSeq(df.rows, LAMBDA r : r.phase = "baseline")) > 1
    /\ impact_df # <<>>

(***************************************************************************)
(* Runs on files of CPU snapshots with a recovery phase: readings 10, 11   *)
(* and 0 of sensor X, and a reading of sensor Y alone (cpu_X is then       *)
(* missing in the phase, and its average over the cpu columns is NaN).     *)
(***************************************************************************)
RecoveryLines ==
    {Parsed(CpuSnapshot(0, "X", 10)), Parsed(CpuSnapshot(0, "X", 11)),
     Parsed(CpuSnapshot(0, "X", 0)), Parsed(CpuSnapshot(0, "Y", 40))}

InitRecovery == InitPipeline(RecoveryLines)

SpecRecovery == InitRecovery /\ [][NextPipeline]_vars

\* The summary rows of a label and phase.
SummaryOf(fault, phase) ==
    SelectSeq(summary_df, LAMBDA r : r.fault_type = fault /\ r.phase = phase)

\* recovery / baseline, undefined on a baseline that is 0 or NaN.
RatioOf(recovery, baseline) ==
    IF IsNaN(baseline) \/ baseline = Int2F(0) THEN NaN ELSE FDiv(recovery, baseline)

RatioFields ==
    {"recovery_cpu_ratio", "recovery_memory_ratio", "recovery_latency_ratio",
     "recovery_interval_ratio"}

\* C11: an impact record carries the four recovery ratios exactly when its label
\* has a recovery summary; each ratio is recovery average / baseline average,
\* NaN when the baseline average is 0 or NaN.
C11_RecoveryRatios ==
    pc = "analyzed" =>
        \A i \in DOMAIN impact_df :
            LET baseline == SummaryOf(impact_df[i].fault_type, "baseline")
                recovery == SummaryOf(impact_df[i].fault_type, "recovery")
            IN  IF recovery = <<>>
                THEN RatioFields \cap DOMAIN impact_df[i] = {}
                ELSE /\ RatioFields \subseteq DOMAIN impact_df[i]
                     /\ impact_df[i].recovery_cpu_ratio =
                            RatioOf(recovery[1].avg_cpu, baseline[1].avg_cpu)
                     /\ impact_df[i].recovery_memory_ratio =
                            RatioOf(recovery[1].avg_memory, baseline[1].avg_memory)
                     /\ impact_df[i].recovery_latency_ratio =
                            RatioOf(recovery[1].avg_latency_ms, baseline[1].avg_latency_ms)
                     /\ impact_df[i].recovery_interval_ratio =
                            RatioOf(recovery[1].avg_reporting_interval,
                                    baseline[1].avg_reporting_interval)
                     /\ (OnlyCpuX /\ HasColumn(df, CpuX)
                            /\ CpuXConstant("baseline", 10) /\ CpuXConstant("recovery", 11))
                        => impact_df[i].recovery_cpu_ratio = Fin(11, 10)

\* Recovery cpu 11 against baseline cpu 10 gives 1.1.
C11_Witness ==
    /\ pc = "analyzed"
    /\ Len(impact_df) = 1
    /\ "recovery_cpu_ratio" \in DOMAIN impact_df[1]
    /\ CpuXConstant("baseline", 10)
    /\ CpuXConstant("recovery", 11)
    /\ impact_df[1].recovery_cpu_ratio = Fin(11, 10)

(***************************************************************************)
(* analyze_impact on a table holding the rows of several experiment        *)
(* labels, as the processors assemble it with pd.concat(ignore_index=True) *)
(* from the tables process_dataset returns.                                *)
(***************************************************************************)
MaxTableRows == 3

TableLabels == {"bola", "ddos"}

TablePhases == {"baseline", "event", "recovery"}

\* A row of a table whose only metric column is cpu_X.
TableRow(i, fault, phase, value) ==
    [index |-> i - 1, timestamp |-> Int2F(i), phase |-> phase,
     vulnerability_type |-> fault,
     cells |-> (<<"cpu", "X">> :> Int2F(value)) @@ (<<"response_time_ms">> :> NaN)]

\* The table of the rows r, each a <<label, phase, cpu_X>>.
Table(r) ==
    [columns |-> <<<<"cpu", "X">>, <<"response_time_ms">>>>,
     rows |-> [i \in DOMAIN r |-> TableRow(i, r[i][1], r[i][2], r[i][3])]]

InitTable ==
    /\ pc = "processed"
    /\ \E n \in 0..MaxTableRows :
         \E r \in [1..n -> TableLabels \X TablePhases \X {10, 40}] : df = Table(r)
    /\ error = ""
    /\ NoLoader
    /\ NoExtract
    /\ NoHelpers
    /\ NoPipeline
    /\ NoCalls

NextTable == AnalyzeImpact

SpecTable == InitTable /\ [][NextTable]_vars

\* The rows of the table of a label and phase.
GroupRows(fault, phase) ==
    SelectSeq(df.rows, LAMBDA r : r.vulnerability_type = fault /\ r.phase = phase)

ImpactsOf(fault) == SelectSeq(impact_df, LAMBDA r : r.fault_type = fault)

\* C12: a label has one impact record when it has a baseline and an event
\* summary and none otherwise, whatever the other labels of the table have;
\* nothing is raised.
C12_OneImpactPerLabel ==
    pc = "analyzed" =>
        /\ error = ""
        /\ \A fault \in TableLabels :
              Len(ImpactsOf(fault)) =
                  IF SummaryOf(fault, "baseline") # <<>> /\ SummaryOf(fault, "event") # <<>>
                  THEN 1 ELSE 0

\* The first label of the table lacks its event phase, the second has its
\* record.
C12_Witness ==
    /\ pc = "analyzed"
    /\ df.rows # <<>>
    /\ df.rows[1].vulnerability_type = "ddos"
    /\ SummaryOf("ddos", "baseline") # <<>>
    /\ SummaryOf("ddos", "event") = <<>>
    /\ ImpactsOf("ddos") = <<>>
    /\ Len(ImpactsOf("bola")) = 1

\* C13: there is exactly one summary row for each (label, phase) that has rows
\* in the table and none for the others; its measurements field is the number of
\* rows of its group.
C13_SummaryPerGroup ==
    pc = "analyzed" =>
        /\ \A fault \in TableLabels : \A phase \in TablePhases :
              IF GroupRows(fault, phase) = <<>>
              THEN SummaryOf(fault, phase) = <<>>
              ELSE /\ Len(SummaryOf(fault, phase)) = 1
                   /\ SummaryOf(fault, phase)[1].measurements = Len(GroupRows(fault, phase))
        /\ \A i \in DOMAIN summary_df :
              /\ summary_df[i].fault_type \in TableLabels
              /\ summary_df[i].phase \in TablePhases

C13_Witness ==
    /\ pc = "analyzed"
    /\ Len(summary_df) = 2
    /\ Len(GroupRows("bola", "event")) = 2
    /\ SummaryOf("bola", "event")[1].measurements = 2
    /\ GroupRows("ddos", "event") = <<>>
    /\ SummaryOf("ddos", "baseline") # <<>>

(***************************************************************************)
(* The stages called one after the other on a table of one phase whose     *)
(* only metric column is temperature_X.  given is the table a stage was    *)
(* called with and kept is that table after the call: calculate_derived_   *)
(* metrics works on a copy (line 183), standardize_processor_output and    *)
(* analyze_impact assign into the table they were passed.                  *)
(***************************************************************************)
CalculateDerivedMetrics ==
    /\ pc = "combined"
    /\ \E hash_order \in HashOrders :
        LET r == calculate_derived_metrics(df, hash_order)
        IN  /\ df' = IF Raised(r) THEN df ELSE r.val
            /\ error' = r.exc
            /\ pc' = IF Raised(r) THEN "raised" ELSE "derived"
    /\ given' = df
    /\ kept' = df
    /\ UNCHANGED <<loaderVars, extractVars, helperVars, pipelineVars, runs>>

StandardizeProcessorOutput ==
    /\ pc = "derived"
    /\ df' = standardize_processor_output(df)
    /\ pc' = "processed"
    /\ given' = df
    /\ kept' = df'
    /\ UNCHANGED <<loaderVars, extractVars, helperVars, pipelineVars, runs, error>>

NextStages == CalculateDerivedMetrics \/ StandardizeProcessorOutput \/ AnalyzeImpact

\* The rows a table is drawn from, each a <<timestamp, temperature_X>>.
IntervalRows == {<<0, 20>>, <<5, 20>>, <<5, 21>>, <<10, 20>>, <<17, 20>>}

TemperatureX == <<"temperature", "X">>

IntervalX == <<"reporting_interval", "X">>

\* pd.DataFrame of the rows r, all of one phase.
TemperatureTable(r, phase) ==
    [columns |-> <<TemperatureX>>,
     rows |-> [i \in DOMAIN r |->
                [index |-> i - 1, timestamp |-> Int2F(r[i][1]), phase |-> phase,
                 vulnerability_type |-> Label,
                 cells |-> (TemperatureX :> Int2F(r[i][2]))]]]

Injective(f) == \A i, j \in DOMAIN f : f[i] = f[j] => i = j

InitStages ==
    /\ pc = "combined"
    /\ \E n \in 0..Cardinality(IntervalRows) :
         \E r \in [1..n -> IntervalRows] :
            Injective(r) /\ df = TemperatureTable(r, "baseline")
    /\ error = ""
    /\ NoLoader
    /\ NoExtract
    /\ NoHelpers
    /\ NoPipeline
    /\ NoCalls

SpecStages == InitStages /\ [][NextStages]_vars

\* The rows of the table d in the order p, as a new table.
Permuted(d, p) ==
    [columns |-> d.columns,
     rows |-> [j \in DOMAIN p |-> [d.rows[p[j]] EXCEPT !.index = j - 1]]]

Orders(n) == {p \in [1..n -> 1..n] : Injective(p)}

IntervalsOf(d) == [i \in DOMAIN d.rows |-> d.rows[i].cells[IntervalX]]

DistinctTimestamps(d) ==
    \A i, j \in DOMAIN d.rows : d.rows[i].timestamp = d.rows[j].timestamp => i = j

\* The timestamp of the row minus the greatest smaller timestamp of the table,
\* NaN on a row that has no earlier one.
SincePrevious(d, i) ==
    LET earlier == {j \in DOMAIN d.rows : FLt(d.rows[j].timestamp, d.rows[i].timestamp)}
    IN  IF earlier = {} THEN NaN
        ELSE FSub(d.rows[i].timestamp,
                  d.rows[CHOOSE j \in earlier :
                            \A k \in earlier :
                                FLe(d.rows[k].timestamp, d.rows[j].timestamp)].timestamp)

\* Every order of the rows of the table given gives each row the interval it
\* has in df.
SameInEveryOrder ==
    \A p \in Orders(Len(given.rows)) :
        \A j \in DOMAIN p :
            IntervalsOf(calculate_derived_metrics(Permuted(given, p), <<"X", "Y">>).val)[j]
                = IntervalsOf(df)[p[j]]

C17_StagesKeepTheirInput ==
    pc \in {"derived", "processed", "analyzed"} => kept = given

(***************************************************************************)
(* The stages on a table of one phase with a reading of temperature_X      *)
(* every 5 seconds, around the number of rows the rolling statistics need. *)
(***************************************************************************)
RollingReadings == {Int2F(20), Int2F(21), NaN, PInf}

\* pd.DataFrame of the readings r, all of the baseline phase.
ReadingsTable(r) ==
    [columns |-> <<TemperatureX>>,
     rows |-> [i \in DOMAIN r |->
                [index |-> i - 1, timestamp |-> Int2F(5 * i), phase |-> "baseline",
                 vulnerability_type |-> Label,
                 cells |-> (TemperatureX :> r[i])]]]

InitRolling ==
    /\ pc = "combined"
    /\ \E n \in (MinRollingRows - 1)..(MinRollingRows + 1) :
         \E r \in [1..n -> RollingReadings] : df = ReadingsTable(r)
    /\ error = ""
    /\ NoLoader
    /\ NoExtract
    /\ NoHelpers
    /\ NoPipeline
    /\ NoCalls

SpecRolling == InitRolling /\ [][NextStages]_vars

ZScoreX == <<"temperature", "X", "zscore">>

\* Every reading of temperature_X in the table is the same finite value.
ConstantReading(d) ==
    \A i \in DOMAIN d.rows :
        /\ IsFin(d.rows[i].cells[TemperatureX])
        /\ d.rows[i].cells[TemperatureX] = d.rows[1].cells[TemperatureX]

\* C15: on a table of at least 5 rows whose temperature_X is constant,
\* calculate_derived_metrics returns without raising and the z-score of every
\* row is NaN.
C15_ConstantZScoreNaN ==
    (pc \in {"derived", "raised"} /\ Len(given.rows) >= MinRollingRows
        /\ ConstantReading(given)) =>
        /\ pc = "derived"
        /\ error = ""
        /\ HasColumn(df, ZScoreX)
        /\ \A i \in DOMAIN df.rows : IsNaN(df.rows[i].cells[ZScoreX])

C15_Witness ==
    /\ pc = "derived"
    /\ Len(given.rows) = MinRollingRows
    /\ ConstantReading(given)
    /\ given.rows[1].cells[TemperatureX] = Int2F(20)
    /\ \A i \in DOMAIN df.rows : IsNaN(df.rows[i].cells[ZScoreX])

(***************************************************************************)
(* Runs on files of latency histogram snapshots of endpoint E of sensor X. *)
(***************************************************************************)
\* A snapshot with one bucket entry per <<le, count>> of buckets.
HistogramSnapshot(timestamp, sensor_id, endpoint, buckets) ==
    Snapshot("metrics", Int2F(timestamp),
             <<<<"sensor_request_latency_seconds_bucket",
                 [i \in DOMAIN buckets |->
                    Entry(<<<<"sensor_id", sensor_id>>, <<"endpoint", endpoint>>,
                            <<"le", buckets[i][1]>>>>, Num(Int2F(buckets[i][2])))]>>>>)

\* One bucket (single_bucket, 100 ms, estimated), two buckets whose counts
\* enclose the target (interpolation, 480 ms, not estimated), two buckets that
\* do not (highest_bucket, 500 ms, estimated).
LatencyLines ==
    {Parsed(HistogramSnapshot(0, "X", "E", <<<<"0.1", 1>>>>)),
     Parsed(HistogramSnapshot(0, "X", "E", <<<<"0.1", 0>>, <<"0.5", 2>>>>)),
     Parsed(HistogramSnapshot(0, "X", "E", <<<<"0.1", 2>>, <<"0.5", 2>>>>)),
     Parsed(CpuSnapshot(0, "X", 10))}

InitLatency == InitPipeline(LatencyLines)

SpecLatency == InitLatency /\ [][NextPipeline]_vars

\* The latency values of endpoint E of sensor X in the rows of a group whose
\* is_estimated flag is the given one.
LatenciesFlagged(fault, phase, estimated) ==
    GroupColumn(
        SelectSeq(PhaseRows(df, fault, phase),
                  LAMBDA r : /\ r.cells[FlagCol("E", "X")] = Bool(estimated)
                             /\ ~IsNaN(r.cells[LatencyCol("E", "X")])),
        LatencyCol("E", "X"))

\* The defined values of the row's latency_ms_<endpoint>_<sensor> columns, the
\* flag and the method columns left out.
RowLatencies(d, i) ==
    DropNa([k \in DOMAIN SelectSeq(d.columns, IsLatencyMsCol) |->
                d.rows[i].cells[SelectSeq(d.columns, IsLatencyMsCol)[k]]])

\* C24: in the table process_dataset returns with a latency column,
\* response_time_ms is on each row the sum of the row's defined latency_ms
\* values.
C24_ResponseTimeIsSum ==
    (pc = "processed" /\ HasColumn(df, LatencyCol("E", "X"))) =>
        \A i \in DOMAIN df.rows :
            df.rows[i].cells[<<"response_time_ms">>] = Sum(RowLatencies(df, i))

\* C16: no summary row has as its avg_latency_ms and max_latency_ms the mean
\* and the maximum over values flagged estimated pooled with values flagged not
\* estimated.
C16_NoBlending ==
    (pc = "analyzed" /\ HasColumn(df, LatencyCol("E", "X"))) =>
        \A i \in DOMAIN summary_df :
            LET measured == LatenciesFlagged(summary_df[i].fault_type,
                                             summary_df[i].phase, FALSE)
                estimated == LatenciesFlagged(summary_df[i].fault_type,
                                              summary_df[i].phase, TRUE)
            IN  ~ /\ measured # <<>>
                  /\ estimated # <<>>
                  /\ summary_df[i].avg_latency_ms = SeriesMean(measured \o estimated)
                  /\ summary_df[i].max_latency_ms = SeriesMax(measured \o estimated)

(***************************************************************************)
(* The pipeline run twice on the same files: a baseline of 6 temperature   *)
(* snapshots of the sensors X and Y taken every 5 seconds and an event of  *)
(* 2.  Each run iterates the set of sensor ids in an order of its own.     *)
(***************************************************************************)
TemperatureSnapshot(timestamp, x, y) ==
    Snapshot("metrics", Int2F(timestamp),
             <<<<"sensor_temperature",
                 <<Entry(<<<<"sensor_id", "X">>>>, Num(Int2F(x))),
                   Entry(<<<<"sensor_id", "Y">>>>, Num(Int2F(y)))>>>>>>)

\* The file of the readings x of sensor X, the first taken at time start;
\* sensor Y reads 20 throughout.
TemperatureFile(start, x) ==
    TextFile([i \in DOMAIN x |->
                Parsed(TemperatureSnapshot(start + 5 * (i - 1), x[i], 20))])

InitTwice ==
    /\ pc = "files"
    /\ \E b \in [1..(MinStabilityRows + 1) -> {20, 21}] : \E e \in [1..2 -> {20, 30}] :
          files = [baseline |-> TemperatureFile(0, b),
                   event |-> TemperatureFile(100, e),
                   recovery |-> NoFile]
    /\ summary_df = <<>>
    /\ impact_df = <<>>
    /\ df = EmptyDF
    /\ error = ""
    /\ NoLoader
    /\ NoExtract
    /\ NoHelpers
    /\ NoCalls

\* The caller keeps what the run returned and starts the pipeline again on the
\* same files.
RunAgain ==
    /\ pc = "analyzed"
    /\ runs = <<>>
    /\ runs' = <<[df |-> df, summary_df |-> summary_df, impact_df |-> impact_df]>>
    /\ pc' = "files"
    /\ df' = EmptyDF
    /\ summary_df' = <<>>
    /\ impact_df' = <<>>
    /\ UNCHANGED <<loaderVars, extractVars, helperVars, files, error, given, kept>>

NextTwice == ProcessDataset \/ AnalyzeImpact \/ RunAgain

SpecTwice == InitTwice /\ [][NextTwice]_vars

\* C18: the second run on the same files returns the summary and the impact
\* records the first run returned, rows, order and values, and processes the
\* same rows with the same cells.
C18_Deterministic ==
    (pc = "analyzed" /\ runs # <<>>) =>
        /\ summary_df = runs[1].summary_df
        /\ impact_df = runs[1].impact_df
        /\ df.rows = runs[1].df.rows

\* Two runs that iterated the sensor ids in different orders (the stability
\* columns of their tables are in different orders) and returned a summary of
\* both phases and an impact record.
C18_Witness ==
    /\ pc = "analyzed"
    /\ runs # <<>>
    /\ df.columns # runs[1].df.columns
    /\ HasColumn(df, <<"interval_stability", "X">>)
    /\ HasColumn(df, <<"interval_stability", "Y">>)
    /\ Len(summary_df) = 2
    /\ summary_df[1].interval_stability = Int2F(0)
    /\ Len(impact_df) = 1
    /\ summary_df = runs[1].summary_df

(***************************************************************************)
(* Runs on files of temperature snapshots of sensor X: the baseline, the   *)
(* event and the recovery file hold up to MaxPhaseRows snapshots each.     *)
(***************************************************************************)
MaxPhaseRows == 2

PhaseTimestamps == {0, 5, 12}

\* The file of one snapshot of temperature_X = 20 per timestamp of t.
SnapshotFile(t) ==
    TextFile([i \in DOMAIN t |->
                Parsed(Snapshot("metrics", Int2F(t[i]),
                         <<<<"sensor_temperature",
                             <<Entry(<<<<"sensor_id", "X">>>>, Num(Int2F(20)))>>>>>>))])

InitPhases ==
    /\ pc = "files"
    /\ \E nb \in 0..MaxPhaseRows : \E ne \in 0..MaxPhaseRows : \E nr \in 0..MaxPhaseRows :
         \E b \in [1..nb -> PhaseTimestamps] : \E e \in [1..ne -> PhaseTimestamps] :
            \E r \in [1..nr -> PhaseTimestamps] :
                files = [baseline |-> SnapshotFile(b), event |-> SnapshotFile(e),
                         recovery |-> SnapshotFile(r)]
    /\ summary_df = <<>>
    /\ impact_df = <<>>
    /\ df = EmptyDF
    /\ error = ""
    /\ NoLoader
    /\ NoExtract
    /\ NoHelpers
    /\ NoCalls

SpecPhases == InitPhases /\ [][NextPipeline]_vars

\* The timestamps of the rows of each phase differ pairwise.
DistinctInPhase(d) ==
    \A i, j \in DOMAIN d.rows :
        (d.rows[i].phase = d.rows[j].phase /\ d.rows[i].timestamp = d.rows[j].timestamp)
            => i = j

\* The timestamp of the row minus the greatest smaller timestamp of its phase,
\* NaN on the earliest row of the phase.
SincePreviousInPhase(d, i) ==
    LET earlier == {j \in DOMAIN d.rows :
                        /\ d.rows[j].phase = d.rows[i].phase
                        /\ FLt(d.rows[j].timestamp, d.rows[i].timestamp)}
    IN  IF earlier = {} THEN NaN
        ELSE FSub(d.rows[i].timestamp,
                  d.rows[CHOOSE j \in earlier :
                            \A k \in earlier :
                                FLe(d.rows[k].timestamp, d.rows[j].timestamp)].timestamp)

\* C19: in the table process_dataset returns, the interval of a row is its
\* timestamp minus the preceding timestamp of its own phase, NaN on the earliest
\* row of each phase.
C19_IntervalWithinPhase ==
    (pc = "processed" /\ HasColumn(df, IntervalX) /\ DistinctInPhase(df)) =>
        \A i \in DOMAIN df.rows :
            df.rows[i].cells[IntervalX] = SincePreviousInPhase(df, i)

(***************************************************************************)
(* The stages on a table of one phase holding any of the three temperature *)
(* columns of sensor X: the sensor's reading, the gateway's and the data   *)
(* server's.                                                               *)
(***************************************************************************)
MaxDeviationRows == 2

TemperatureParts == {"temperature", "gateway_temp", "true_temp"}

\* The temperature columns in the order extract_metrics meets them.
TemperatureColumns ==
    <<<<"temperature", "X">>, <<"gateway_temp", "X">>, <<"true_temp", "X">>>>

DeviationReadings == {Int2F(20), Int2F(22), NaN}

\* pd.DataFrame of records taken every 5 seconds that hold the columns of
\* parts, v[i][part] being the reading of row i (NaN: none in that record).
DeviationTable(parts, v) ==
    [columns |-> SelectSeq(TemperatureColumns, LAMBDA c : c[1] \in parts),
     rows |-> [i \in DOMAIN v |->
                [index |-> i - 1, timestamp |-> Int2F(5 * (i - 1)), phase |-> "baseline",
                 vulnerability_type |-> Label,
                 cells |-> [c \in {<<part, "X">> : part \in parts} |-> v[i][c[1]]]]]]

InitDeviation ==
    /\ pc = "combined"
    /\ \E parts \in (SUBSET TemperatureParts) \ {{}} :
         \E n \in 1..MaxDeviationRows :
            \E v \in [1..n -> [parts -> DeviationReadings]] :
                /\ \A i \in 1..n : \E part \in parts : ~IsNaN(v[i][part])
                /\ \A part \in parts : \E i \in 1..n : ~IsNaN(v[i][part])
                /\ df = DeviationTable(parts, v)
    /\ error = ""
    /\ NoLoader
    /\ NoExtract
    /\ NoHelpers
    /\ NoPipeline
    /\ NoCalls

SpecDeviation == InitDeviation /\ [][NextStages]_vars

\* The two source columns of each deviation column.
DeviationSources ==
    [sensor_gateway_dev |-> <<"temperature", "gateway_temp">>,
     sensor_true_dev    |-> <<"temperature", "true_temp">>,
     gateway_true_dev   |-> <<"gateway_temp", "true_temp">>]

\* The deviation column dev of sensor X holds, row by row, the absolute
\* difference of its two source columns in the table the stage was given.
AbsoluteDifference(dev) ==
    \A i \in DOMAIN df.rows :
        df.rows[i].cells[<<dev, "X">>] =
            FAbs(FSub(given.rows[i].cells[<<DeviationSources[dev][1], "X">>],
                      given.rows[i].cells[<<DeviationSources[dev][2], "X">>]))

\* C23: each deviation column exists exactly when both of its source columns
\* exist, and then holds their absolute difference row by row.
C23_DeviationIffSources ==
    pc = "derived" =>
        \A dev \in DOMAIN DeviationSources :
            /\ HasColumn(df, <<dev, "X">>) <=>
                  /\ HasColumn(given, <<DeviationSources[dev][1], "X">>)
                  /\ HasColumn(given, <<DeviationSources[dev][2], "X">>)
            /\ HasColumn(df, <<dev, "X">>) => AbsoluteDifference(dev)

(***************************************************************************)
(* The stages on the table process_dataset combines (line 536) from the    *)
(* records of a baseline and an event feed.  A snapshot carries the        *)
(* temperature of sensor X, of sensor Y, of both, or the temperature of X  *)
(* beside a latency histogram of X; the snapshots of a feed come in any    *)
(* order of their timestamps.                                              *)
(***************************************************************************)
MaxFrameRows == 2

FrameTimestamps == {0, 5}

FrameKinds == {{"x"}, {"y"}, {"x", "y"}, {"x", "h"}}

\* The metrics snapshot taken at timestamp that holds the readings of kinds.
MixedSnapshot(timestamp, kinds) ==
    Snapshot("metrics", Int2F(timestamp),
        <<<<"sensor_temperature",
            (IF "x" \in kinds THEN <<Entry(<<<<"sensor_id", "X">>>>, Num(Int2F(20)))>>
             ELSE <<>>)
            \o (IF "y" \in kinds THEN <<Entry(<<<<"sensor_id", "Y">>>>, Num(Int2F(21)))>>
                ELSE <<>>)>>>>
        \o (IF "h" \in kinds
            THEN <<<<"sensor_request_latency_seconds_bucket",
                     <<Entry(<<<<"sensor_id", "X">>, <<"endpoint", "E">>, <<"le", "0.1">>>>,
                             Num(Int2F(0))),
                       Entry(<<<<"sensor_id", "X">>, <<"endpoint", "E">>, <<"le", "0.5">>>>,
                             Num(Int2F(2)))>>>>>>
            ELSE <<>>))

FrameSnapshots == {MixedSnapshot(t, kinds) : t \in FrameTimestamps, kinds \in FrameKinds}

\* Lines 507-536 on the snapshots of the two feeds.
FrameOf(baseline_data, event_data) ==
    CombinedFrame(extract_metrics(baseline_data, "baseline", Label).val,
                  extract_metrics(event_data, "event", Label).val,
                  <<>>)

InitFrame ==
    /\ pc = "combined"
    /\ \E nb \in 1..MaxFrameRows : \E ne \in 0..1 :
         \E b \in [1..nb -> FrameSnapshots] : \E e \in [1..ne -> FrameSnapshots] :
            df = FrameOf(b, e)
    /\ error = ""
    /\ NoLoader
    /\ NoExtract
    /\ NoHelpers
    /\ NoPipeline
    /\ NoCalls

SpecFrame == InitFrame /\ [][NextStages]_vars

\* The fixed fields of row i are the same in the tables a and b.
SameRow(a, b, i) ==
    /\ a.rows[i].index = b.rows[i].index
    /\ a.rows[i].timestamp = b.rows[i].timestamp
    /\ a.rows[i].phase = b.rows[i].phase
    /\ a.rows[i].vulnerability_type = b.rows[i].vulnerability_type

\* C25: the table calculate_derived_metrics returns has the rows of its input
\* in the same order, every input column but the bucket column with its values
\* unchanged, and no bucket column.
C25_RowsAndRawColumnsKept ==
    pc = "derived" =>
        /\ Len(df.rows) = Len(given.rows)
        /\ \A i \in DOMAIN given.rows : SameRow(df, given, i)
        /\ \A c \in Range(given.columns) \ {<<"bucket">>} :
              HasColumn(df, c) /\ Column(df, c) = Column(given, c)
        /\ ~HasColumn(df, <<"bucket">>)

\* A table with a bucket column whose first two rows are of one phase and in
\* descending order of timestamp, and the interval written on the first row.
C25_Witness ==
    /\ pc = "derived"
    /\ HasColumn(given, <<"bucket">>)
    /\ Len(given.rows) >= 2
    /\ given.rows[1].phase = given.rows[2].phase
    /\ FLt(given.rows[2].timestamp, given.rows[1].timestamp)
    /\ df.rows[1].cells[IntervalX] = Int2F(5)
    /\ HasColumn(df, LatencyCol("E", "X"))

IntervalY == <<"reporting_interval", "Y">>

\* C30: when the sensors X and Y both have a temperature column, the table
\* calculate_derived_metrics returns has the reporting interval column of both
\* or of neither, and the two columns hold the same value on every row.
C30_SameIntervalForEverySensor ==
    (/\ pc = "derived"
     /\ HasColumn(df, TemperatureX)
     /\ HasColumn(df, <<"temperature", "Y">>)) =>
        /\ HasColumn(df, IntervalX) <=> HasColumn(df, IntervalY)
        /\ HasColumn(df, IntervalX) => Column(df, IntervalX) = Column(df, IntervalY)

\* Two baseline rows five seconds apart, the first with a reading of X alone
\* and the second with a reading of Y alone: both sensors get the interval 5
\* on the second row.
C30_Witness ==
    /\ pc = "derived"
    /\ Len(df.rows) >= 2
    /\ df.rows[1].phase = "baseline" /\ df.rows[2].phase = "baseline"
    /\ HasColumn(df, <<"temperature", "Y">>)
    /\ ~IsNaN(df.rows[1].cells[TemperatureX])
    /\ IsNaN(df.rows[1].cells[<<"temperature", "Y">>])
    /\ IsNaN(df.rows[2].cells[TemperatureX])
    /\ ~IsNaN(df.rows[2].cells[<<"temperature", "Y">>])
    /\ df.rows[2].cells[IntervalX] = Int2F(5)
    /\ df.rows[2].cells[IntervalY] = Int2F(5)

(***************************************************************************)
(* analyze_command_injection_impact on the table main assembles with       *)
(* pd.concat(ignore_index=True) from the tables of the fault scenarios,    *)
(* whose rows process_command_injection_dataset labels baseline, install,  *)
(* shell or recovery.                                                      *)
(***************************************************************************)
InjectionPhases == {"baseline", "install", "shell", "recovery"}

InitInjection ==
    /\ pc = "scenarios"
    /\ \E n \in 1..MaxTableRows :
         \E r \in [1..n -> TableLabels \X InjectionPhases \X {10, 40}] : df = Table(r)
    /\ error = ""
    /\ NoLoader
    /\ NoExtract
    /\ NoHelpers
    /\ NoPipeline
    /\ NoCalls

AnalyzeCommandInjectionImpact ==
    /\ pc = "scenarios"
    /\ LET r == analyze_command_injection_impact(df)
       IN  /\ summary_df' = IF Raised(r) THEN summary_df ELSE r.val.summary_df
           /\ impact_df' = IF Raised(r) THEN impact_df ELSE r.val.impact_df
           /\ error' = r.exc
           /\ pc' = IF Raised(r) THEN "raised" ELSE "analyzed"
    /\ given' = df
    /\ kept' = df
    /\ UNCHANGED <<loaderVars, extractVars, helperVars, files, df, runs>>

NextInjection == AnalyzeCommandInjectionImpact

SpecInjection == InitInjection /\ [][NextInjection]_vars

\* C26: an impact record is produced for every label that has baseline rows
\* and install or shell rows.
C26_InstallShellAsEvent ==
    pc = "analyzed" =>
        \A fault \in TableLabels :
            (/\ PhaseRows(df, fault, "baseline") # <<>>
             /\ \/ PhaseRows(df, fault, "install") # <<>>
                \/ PhaseRows(df, fault, "shell") # <<>>)
                => \E i \in DOMAIN impact_df : impact_df[i].fault_type = fault

(***************************************************************************)
(* extract_metrics on a list of snapshots of several kinds, called with a  *)
(* phase and an experiment label of the caller's choice (kept in given).   *)
(***************************************************************************)
MaxSnapshots == 2

\* The metrics of a snapshot: a recognised entry, an entry of a metric kind the
\* function does not know, a known kind with no entry, and no metric at all.
SnapshotMetrics ==
    {<<<<"sensor_cpu_usage_percent", <<Entry(<<<<"sensor_id", "X">>>>, Num(Int2F(10)))>>>>>>,
     <<<<"up", <<Entry(<<<<"sensor_id", "X">>>>, Num(Int2F(1)))>>>>>>,
     <<<<"sensor_cpu_usage_percent", <<>>>>>>,
     <<>>}

\* Metrics snapshots, and metadata and event markers (the latter two also
\* with a recognised entry, which the function must not read).
SnapshotsOfKinds ==
    {Snapshot(data_type, Int2F(t), m) :
        data_type \in {"metrics", "metadata", "event_start"}, t \in {0, 5},
        m \in SnapshotMetrics}

InitSnapshots ==
    /\ pc = "snapshots"
    /\ \E n \in 0..MaxSnapshots : jsonl_data \in [1..n -> SnapshotsOfKinds]
    /\ metrics = <<>>
    /\ NoLoader
    /\ NoHelpers
    /\ df = EmptyDF
    /\ error = ""
    /\ NoPipeline
    /\ NoCalls

ExtractMetricsAs ==
    /\ pc = "snapshots"
    /\ \E phase \in {"baseline", "event"} : \E vulnerability_type \in TableLabels :
        LET r == extract_metrics(jsonl_data, phase, vulnerability_type)
        IN  /\ metrics' = r.val
            /\ error' = r.exc
            /\ given' = <<phase, vulnerability_type>>
    /\ pc' = "extracted"
    /\ UNCHANGED <<loaderVars, jsonl_data, helperVars, pipelineVars, df, kept, runs>>

NextSnapshots == ExtractMetricsAs

SpecSnapshots == InitSnapshots /\ [][NextSnapshots]_vars

\* The snapshot is of kind metrics and holds an entry of a metric kind that
\* gives a column.
YieldsColumn(snapshot) ==
    /\ snapshot.data_type = "metrics"
    /\ \E k \in DOMAIN snapshot.metrics :
          /\ snapshot.metrics[k][1] \in MetricKinds
          /\ snapshot.metrics[k][2] # <<>>

\* C27: the records emitted are, in snapshot order, one for each snapshot of
\* kind metrics that yields a column, and none for any other snapshot; each
\* carries its snapshot's timestamp and the caller's phase and label and has
\* at least one column.
C27_OneRecordPerYieldingSnapshot ==
    (pc = "extracted" /\ error = "") =>
        /\ Len(metrics) = Len(SelectSeq(jsonl_data, YieldsColumn))
        /\ \A i \in DOMAIN metrics :
              /\ metrics[i].timestamp = SelectSeq(jsonl_data, YieldsColumn)[i].timestamp
              /\ metrics[i].phase = given[1]
              /\ metrics[i].vulnerability_type = given[2]
              /\ Len(metrics[i].cells) > 0

\* A metrics snapshot without a recognised entry followed by one with a
\* recognised entry, the call made for the event phase.
C27_Witness ==
    /\ pc = "extracted"
    /\ Len(jsonl_data) = 2
    /\ jsonl_data[1].data_type = "metrics" /\ ~YieldsColumn(jsonl_data[1])
    /\ YieldsColumn(jsonl_data[2])
    /\ given[1] = "event"
    /\ Len(metrics) = 1
    /\ metrics[1].timestamp = jsonl_data[2].timestamp

(***************************************************************************)
(* analyze_impact on a table of one label with the columns temperature_X   *)
(* and reporting_interval_X: intervals missing, zero (rows of equal        *)
(* timestamp), regular, and of 30 seconds and more.                        *)
(***************************************************************************)
IntervalValues == {NaN, Int2F(0), Int2F(5), Int2F(10), Int2F(30), Int2F(45)}

\* The table of the rows r, each a <<phase, reporting_interval_X>>.
IntervalTable(r) ==
    [columns |-> <<TemperatureX, IntervalX, <<"response_time_ms">>>>,
     rows |-> [i \in DOMAIN r |->
                [index |-> i - 1, timestamp |-> Int2F(i), phase |-> r[i][1],
                 vulnerability_type |-> Label,
                 cells |-> (TemperatureX :> Int2F(20)) @@ (IntervalX :> r[i][2])
                           @@ (<<"response_time_ms">> :> NaN)]]]

InitIntervals ==
    /\ pc = "processed"
    /\ \E n \in 1..MaxTableRows :
         \E r \in [1..n -> {"baseline", "event"} \X IntervalValues] : df = IntervalTable(r)
    /\ error = ""
    /\ NoLoader
    /\ NoExtract
    /\ NoHelpers
    /\ NoPipeline
    /\ NoCalls

SpecIntervals == InitIntervals /\ [][NextTable]_vars

\* The positions of the rows of the group whose interval v has 0 < v < 30.
Qualifying(phase) ==
    {i \in DOMAIN df.rows :
        /\ df.rows[i].phase = phase
        /\ IsFin(df.rows[i].cells[IntervalX])
        /\ df.rows[i].cells[IntervalX].n > 0
        /\ df.rows[i].cells[IntervalX].n < 30 * df.rows[i].cells[IntervalX].d}

\* The sum of the intervals at the positions of S.
RECURSIVE IntervalSum(_)
IntervalSum(S) ==
    IF S = {} THEN Int2F(0)
    ELSE FAdd(df.rows[CHOOSE i \in S : TRUE].cells[IntervalX],
              IntervalSum(S \ {CHOOSE i \in S : TRUE}))

HelperArgs ==
    {NaN, PInf, NInf} \cup {Int2F(v) : v \in {-100, 0, 10, 11, 40, 100, 150}}
        \cup {Fin(1, 2), Fin(-7, 3)}

InitHelpers ==
    /\ pc = "args"
    /\ baseline_value \in HelperArgs
    /\ new_value \in HelperArgs
    /\ result = NaN
    /\ NoLoader
    /\ NoExtract
    /\ df = EmptyDF
    /\ error = ""
    /\ NoPipeline
    /\ NoCalls

CalculatePercentIncrease ==
    /\ pc = "args"
    /\ result' = calculate_percent_increase(baseline_value, new_value)
    /\ pc' = "percent"
    /\ UNCHANGED <<loaderVars, extractVars, pipelineVars, baseline_value, new_value, df, error, callVars>>

\* safe_divide(numerator = new_value, denominator = baseline_value)
SafeDivide ==
    /\ pc = "args"
    /\ result' = safe_divide(new_value, baseline_value)
    /\ pc' = "ratio"
    /\ UNCHANGED <<loaderVars, extractVars, pipelineVars, baseline_value, new_value, df, error, callVars>>

NextHelpers == CalculatePercentIncrease \/ SafeDivide

SpecHelpers == InitHelpers /\ [][NextHelpers]_vars

\* C8: calculate_percent_increase is NaN for a zero or NaN baseline whatever the
\* event value, and (event/baseline - 1) * 100 for a finite non-zero baseline and a
\* finite event, so (100, 150) gives 50.
C8_PercentIncrease ==
    pc = "percent" =>
        /\ (IsNaN(baseline_value) \/ baseline_value = Int2F(0)) => IsNaN(result)
        /\ (IsFin(baseline_value) /\ baseline_value # Int2F(0) /\ IsFin(new_value)) =>
               /\ IsFin(result)
               /\ result.n * (new_value.d * baseline_value.n)
                    = 100 * (new_value.n * baseline_value.d
                             - baseline_value.n * new_value.d) * result.d
        /\ (baseline_value = Int2F(100) /\ new_value = Int2F(150)) => result = Int2F(50)

C8_Witness ==
    /\ pc = "percent"
    /\ baseline_value = Int2F(0)
    /\ new_value = Int2F(150)
    /\ IsNaN(result)

====
